---- MODULE Spec2Model ----
(***************************************************************************)
(* A model of tuitorial's focus resolution and span compositing engine     *)
(* (src/tuitorial/widgets.py, CodeDisplay and the module-level helpers it  *)
(* calls) as a state machine.                                              *)
(*                                                                         *)
(* A buffer ("code") is a sequence of one-character strings; offsets are   *)
(* 0-based as in Python, so the character at offset p is code[p + 1].      *)
(* A candidate range is a tuple <<start, end, style>> with end exclusive.  *)
(***************************************************************************)
EXTENDS Integers, Sequences, FiniteSets, TLC

(***************************************************************************)
(* Bounds of the model.                                                    *)
(***************************************************************************)
\* The longest generic buffer.
MaxLen == 3
\* The longest focus list handed to update_focuses.
MaxFocuses == 2

(***************************************************************************)
(* Inputs.                                                                 *)
(***************************************************************************)
\* The characters of the generic buffers: a word character and a separator.
Alphabet == {"i", " "}

\* The characters Python's \w matches, among those the buffers below use.
WordChars == {"a", "d", "e", "g", "i", "j", "n", "r", "s", "t", "x", "y", "z"}

\* Two rich Style values that differ (Style compares by value).
Yellow == "bright_yellow"
Green == "bright_green"

\* Style(dim=True), the style of the gap spans.
DimStyle == "dim"

\* Every buffer over Alphabet of length at most MaxLen.
GenericCodes == UNION {[1..n -> Alphabet] : n \in 0..MaxLen}

\* "[i]"  (tests/test_highlighting.py, test_bracket_highlighting_detailed)
CodeBracket == <<"[", "i", "]">>

\* "test [i] and i in z[i, j]"  (test_compound_and_single_char_highlighting)
CodeCompound ==
    <<"t", "e", "s", "t", " ", "[", "i", "]", " ", "a", "n", "d", " ", "i",
      " ", "i", "n", " ", "z", "[", "i", ",", " ", "j", "]">>

\* "i init in string"  (test_literal_word_boundary)
CodeWords ==
    <<"i", " ", "i", "n", "i", "t", " ", "i", "n", " ", "s", "t", "r", "i",
      "n", "g">>

TestCodes == {CodeBracket, CodeCompound, CodeWords}

Codes == GenericCodes \cup TestCodes

(***************************************************************************)
(* A small regular-expression engine: what the engine asks of Python's re. *)
(* A compiled pattern is a sequence of atoms:                              *)
(*   "lit"    one literal character                                        *)
(*   "set"    one character of a bracketed class                           *)
(*   "dot"    .   (c: whether DOTALL lets it match "\n")                   *)
(*   "star"   .* or .*?  (c.greedy, c.dotall)                              *)
(*   "b"      the zero-width word boundary \b                              *)
(*   "behind" (?<=...) and "ahead" (?=...), c the atoms looked for         *)
(*   "error"  a place where re.compile raises re.error                     *)
(***************************************************************************)
LitAtom(c) == [k |-> "lit", c |-> c]

BoundaryAtom == [k |-> "b", c |-> ""]

DotAtom(dotall) == [k |-> "dot", c |-> dotall]

StarAtom(greedy, dotall) == [k |-> "star", c |-> [greedy |-> greedy, dotall |-> dotall]]

ErrorAtom == [k |-> "error", c |-> ""]

\* re.escape(text): every character of text matches itself.
ReEscape(text) == [n \in 1..Len(text) |-> LitAtom(text[n])]

\* re.compile(text) of a text that is not escaped, for the patterns the model
\* feeds it: "." is any character, "[" up to the next "]" a class of
\* characters, a "[" that is never closed an error ("unterminated character
\* set"), every other character itself.
RECURSIVE ReCompile(_, _, _)
ReCompile(text, k, dotall) ==
    IF k > Len(text) THEN <<>>
    ELSE LET closing == {j \in (k + 2)..Len(text) : text[j] = "]"}
         IN IF text[k] = "[" /\ closing # {}
            THEN LET j == CHOOSE j \in closing : \A i \in closing : j <= i
                 IN <<[k |-> "set", c |-> {text[i] : i \in (k + 1)..(j - 1)}]>>
                        \o ReCompile(text, j + 1, dotall)
            ELSE IF text[k] = "[" THEN <<ErrorAtom>>
            ELSE IF text[k] = "." THEN <<DotAtom(dotall)>> \o ReCompile(text, k + 1, dotall)
            ELSE <<LitAtom(text[k])>> \o ReCompile(text, k + 1, dotall)

\* re.compile raises re.error on the pattern.
IsInvalid(pat) == \E n \in 1..Len(pat) : pat[n].k = "error"

IsWordChar(c) == c \in WordChars

\* \b at offset p: exactly one of the characters before and after p is a
\* word character (the ends of the buffer count as non-word).
IsBoundary(code, p) ==
    LET before == p > 0 /\ IsWordChar(code[p])
        after == p < Len(code) /\ IsWordChar(code[p + 1])
    IN before # after

\* "." matches the character c.
DotMatches(c, dotall) == dotall \/ c # "\n"

Least(S) == CHOOSE x \in S : \A y \in S : x <= y

Greatest(S) == CHOOSE x \in S : \A y \in S : x >= y

\* The end offset of the match of atoms k.. of pat at offset p that the
\* backtracking matcher finds first among those ending at least or later,
\* or -1.
RECURSIVE MatchHere(_, _, _, _, _)
MatchHere(pat, k, code, p, least) ==
    IF k > Len(pat) THEN (IF p >= least THEN p ELSE -1)
    ELSE IF pat[k].k = "b"
         THEN IF IsBoundary(code, p) THEN MatchHere(pat, k + 1, code, p, least) ELSE -1
    ELSE IF pat[k].k = "star"
         THEN LET reach == {q \in p..Len(code) :
                               \A j \in (p + 1)..q : DotMatches(code[j], pat[k].c.dotall)}
                  good == {q \in reach : MatchHere(pat, k + 1, code, q, least) # -1}
              IN IF good = {} THEN -1
                 ELSE MatchHere(pat, k + 1, code,
                                IF pat[k].c.greedy THEN Greatest(good) ELSE Least(good),
                                least)
    ELSE IF pat[k].k = "behind"
         THEN IF /\ p - Len(pat[k].c) >= 0
                 /\ MatchHere(pat[k].c, 1, code, p - Len(pat[k].c), 0) = p
              THEN MatchHere(pat, k + 1, code, p, least) ELSE -1
    ELSE IF pat[k].k = "ahead"
         THEN IF MatchHere(pat[k].c, 1, code, p, 0) # -1
              THEN MatchHere(pat, k + 1, code, p, least) ELSE -1
    ELSE IF p >= Len(code) THEN -1
    ELSE IF pat[k].k = "set"
         THEN IF code[p + 1] \in pat[k].c
              THEN MatchHere(pat, k + 1, code, p + 1, least) ELSE -1
    ELSE IF pat[k].k = "dot"
         THEN IF DotMatches(code[p + 1], pat[k].c)
              THEN MatchHere(pat, k + 1, code, p + 1, least) ELSE -1
    ELSE IF code[p + 1] = pat[k].c THEN MatchHere(pat, k + 1, code, p + 1, least)
    ELSE -1

\* The scanner behind re.finditer: the matches <<start, end>> found scanning
\* left to right from offset pos.  A new search starts where the last match
\* ended; after an empty match the next one at the same offset must not be
\* empty (must_advance).
RECURSIVE Scanner(_, _, _, _)
Scanner(pat, code, pos, must_advance) ==
    IF pos > Len(code) THEN <<>>
    ELSE LET e == MatchHere(pat, 1, code, pos, IF must_advance THEN pos + 1 ELSE pos)
         IN IF e = -1 THEN Scanner(pat, code, pos + 1, FALSE)
            ELSE <<<<pos, e>>>> \o Scanner(pat, code, e, e = pos)

\* re.finditer(pat, code) from offset pos on.
FindIter(pat, code, pos) == Scanner(pat, code, pos, FALSE)

(***************************************************************************)
(* Focus construction (src/tuitorial/highlighting.py).                     *)
(***************************************************************************)
\* The values of a match_index argument: None, an int, a list of ints.
None == [kind |-> "none"]

Index(k) == [kind |-> "int", v |-> k]

IndexList(K) == [kind |-> "list", v |-> K]

\* Focus.literal(text, style, word_boundary=..., match_index=...)
FocusLiteralIndexed(text, style, word_boundary, match_index) ==
    IF word_boundary
    THEN [type |-> "REGEX",
          pattern |-> <<BoundaryAtom>> \o ReEscape(text) \o <<BoundaryAtom>>,
          match_index |-> match_index,
          style |-> style]
    ELSE [type |-> "LITERAL", pattern |-> text, match_index |-> match_index,
          word_boundary |-> FALSE, style |-> style]

\* Focus.literal(text, style, word_boundary=...)
FocusLiteral(text, style, word_boundary) ==
    FocusLiteralIndexed(text, style, word_boundary, None)

\* What a constructor that raised leaves behind: no focus.
ConstructionError == [type |-> "ERROR"]

\* Focus.regex(pattern, style) of a str pattern: re.compile runs here.
FocusRegex(pattern, style) ==
    LET compiled == ReCompile(pattern, 1, FALSE)
    IN IF IsInvalid(compiled) THEN ConstructionError
       ELSE [type |-> "REGEX", pattern |-> compiled, match_index |-> None,
             style |-> style]

\* Focus.line(line_number, style)
FocusLine(line_number, style) ==
    [type |-> "LINE", line_number |-> line_number, style |-> style]

\* Focus.startswith(text, style, from_start_of_line=...)
FocusStartswith(text, style, from_start_of_line) ==
    [type |-> "STARTSWITH", text |-> text,
     from_start_of_line |-> from_start_of_line, style |-> style]

\* Focus.between(start_pattern, end_pattern, style, inclusive=...,
\* multiline=..., match_index=..., greedy=...): the patterns are kept as str.
FocusBetween(start_pattern, end_pattern, style, inclusive, multiline, match_index, greedy) ==
    [type |-> "BETWEEN", start_pattern |-> start_pattern,
     end_pattern |-> end_pattern, inclusive |-> inclusive,
     multiline |-> multiline, match_index |-> match_index, greedy |-> greedy,
     style |-> style]

\* Focus.line_containing(pattern, style, lines_before=..., lines_after=...,
\* regex=..., match_index=...): the pattern is kept as str.
FocusLineContaining(pattern, style, lines_before, lines_after, regex, match_index) ==
    [type |-> IF regex THEN "LINE_CONTAINING_REGEX" ELSE "LINE_CONTAINING",
     pattern |-> pattern, lines_before |-> lines_before,
     lines_after |-> lines_after, match_index |-> match_index, style |-> style]

\* Focus.syntax(lexer, theme=..., line_numbers=..., start_line=..., end_line=...)
FocusSyntax(lexer, theme, line_numbers, start_line, end_line) ==
    [type |-> "SYNTAX", lexer |-> lexer, theme |-> theme,
     line_numbers |-> line_numbers, start_line |-> start_line,
     end_line |-> end_line]

\* Focus.markdown()
FocusMarkdown == [type |-> "MARKDOWN"]

\* Focus.range(start, end, style)
FocusRange(start, end, style) ==
    [type |-> "RANGE", start |-> start, end |-> end, style |-> style]

\* The focuses tried on the generic buffers: literals with and without word
\* boundary, ranges that partially overlap (the second runs past the end of
\* the shorter buffers), and ranges with a negative start or end.
FocusUniverse ==
    { FocusLiteral(<<"i">>, Yellow, FALSE),
      FocusLiteral(<<"i">>, Green, TRUE),
      FocusLiteral(<<"i", "i">>, Green, FALSE),
      FocusRange(0, 2, Yellow),
      FocusRange(1, 3, Green),
      FocusRange(-2, 1, Yellow),
      FocusRange(-2, -1, Green) }

\* The focuses of the tests, tried on the tests' buffers.
TestFocuses ==
    { FocusLiteral(<<"[", "i", "]">>, Yellow, FALSE),
      FocusLiteral(<<"[", "i", "]">>, Yellow, TRUE),
      FocusLiteral(<<"i">>, Yellow, FALSE),
      FocusLiteral(<<"i">>, Yellow, TRUE) }

ListsOver(S) == UNION {[1..n -> S] : n \in 0..MaxFocuses}

\* The focus lists update_focuses is called with for a buffer.
FocusLists(c) == IF c \in TestCodes THEN ListsOver(TestFocuses) ELSE ListsOver(FocusUniverse)

(***************************************************************************)
(* Matchers (src/tuitorial/widgets.py).                                    *)
(***************************************************************************)
SeqRange(s) == {s[n] : n \in 1..Len(s)}

\* re.compile(text) of a text that was not escaped: "[" up to the next "]"
\* is a class of characters.
RECURSIVE ReCompileRaw(_, _)
ReCompileRaw(text, k) ==
    IF k > Len(text) THEN <<>>
    ELSE LET closing == {j \in (k + 2)..Len(text) : text[j] = "]"}
         IN IF text[k] = "[" /\ closing # {}
            THEN LET j == CHOOSE j \in closing : \A i \in closing : j <= i
                 IN <<[k |-> "set", c |-> {text[i] : i \in (k + 1)..(j - 1)}]>>
                        \o ReCompileRaw(text, j + 1)
            ELSE <<LitAtom(text[k])>> \o ReCompileRaw(text, k + 1)

\* Mutant of _collect_literal_ranges: the text is not escaped.
CollectLiteralRangesUnescaped(code, focus) ==
    {<<m[1], m[2], focus.style>> :
        m \in SeqRange(FindIter(ReCompileRaw(focus.pattern, 1), code, 0))}

\* _collect_literal_ranges
CollectLiteralRanges(code, focus) ==
    LET escaped == ReEscape(focus.pattern)
        pattern == IF focus.word_boundary
                   THEN <<BoundaryAtom>> \o escaped \o <<BoundaryAtom>>
                   ELSE escaped
    IN {<<m[1], m[2], focus.style>> : m \in SeqRange(FindIter(pattern, code, 0))}

\* _collect_regex_ranges (the pattern is already compiled)
CollectRegexRanges(code, focus) ==
    {<<m[1], m[2], focus.style>> : m \in SeqRange(FindIter(focus.pattern, code, 0))}

\* _collect_range_ranges
CollectRangeRanges(code, focus) == {<<focus.start, focus.end, focus.style>>}

(***************************************************************************)
(* The str methods the matchers call.  A str is a sequence of characters;  *)
(* offsets are 0-based.                                                    *)
(***************************************************************************)
\* The characters str.lstrip() strips, among those the buffers use.
Whitespace == {" ", "\n", "\r"}

\* The line boundaries of str.splitlines(), among those the buffers use
\* ("\r\n" counts as one boundary).
LineBoundaries == {"\n", "\r"}

\* s[i:j] for 0 <= i <= j <= len(s)
StrSlice(s, i, j) == SubSeq(s, i + 1, j)

\* s.find(text, pos): the lowest offset at or after pos where text occurs
\* in s, or -1.
StrFind(s, text, pos) ==
    LET at == {i \in pos..(Len(s) - Len(text)) : StrSlice(s, i, i + Len(text)) = text}
    IN IF at = {} THEN -1 ELSE Least(at)

\* s.startswith(text)
StrStartsWith(s, text) == Len(text) <= Len(s) /\ StrSlice(s, 0, Len(text)) = text

\* s.lstrip()
RECURSIVE StrLstrip(_)
StrLstrip(s) ==
    IF Len(s) > 0 /\ s[1] \in Whitespace THEN StrLstrip(Tail(s)) ELSE s

\* s.rstrip("\n")
RECURSIVE StrRstripNewline(_)
StrRstripNewline(s) ==
    IF Len(s) > 0 /\ s[Len(s)] = "\n"
    THEN StrRstripNewline(SubSeq(s, 1, Len(s) - 1)) ELSE s

\* s.split("\n"): the pieces between the newlines; [""] for the empty str.
RECURSIVE StrSplit(_)
StrSplit(s) ==
    LET j == StrFind(s, <<"\n">>, 0)
    IN IF j = -1 THEN <<s>>
       ELSE <<StrSlice(s, 0, j)>> \o StrSplit(StrSlice(s, j + 1, Len(s)))

\* s.splitlines(keepends=True): the lines with their boundaries; [] for the
\* empty str, and no empty last line after a final boundary.
RECURSIVE StrSplitlines(_)
StrSplitlines(s) ==
    LET ends == {j \in 1..Len(s) : s[j] \in LineBoundaries}
    IN IF Len(s) = 0 THEN <<>>
       ELSE IF ends = {} THEN <<s>>
       ELSE LET j == Least(ends)
                e == IF s[j] = "\r" /\ j < Len(s) /\ s[j + 1] = "\n" THEN j + 1 ELSE j
            IN <<SubSeq(s, 1, e)>> \o StrSplitlines(SubSeq(s, e + 1, Len(s)))

Min(a, b) == IF a <= b THEN a ELSE b

Max(a, b) == IF a >= b THEN a ELSE b

\* The number of elements of lines[:n]: a negative n counts from the end.
PrefixLen(lines, n) ==
    IF n < 0 THEN Max(0, Len(lines) + n) ELSE Min(n, Len(lines))

\* sum(len(line) + sep for line in lines[:n])
RECURSIVE SumLen(_, _, _)
SumLen(lines, n, sep) ==
    IF PrefixLen(lines, n) = 0 THEN 0
    ELSE LET m == PrefixLen(lines, n)
         IN Len(lines[m]) + sep + SumLen(SubSeq(lines, 1, m - 1), m - 1, sep)

\* Mutant of the selection by match_index: a negative index counts from the
\* end of the matches, as in matches[match_index].
SelectMatchesFromEnd(matches, match_index) ==
    IF match_index.kind = "none" THEN SeqRange(matches)
    ELSE IF -Len(matches) <= match_index.v /\ match_index.v < Len(matches)
         THEN {matches[(match_index.v % Len(matches)) + 1]}
    ELSE {}

\* matches[match_index] under the guard 0 <= match_index < len(matches), all
\* the matches for None: the selection of _collect_between_ranges and of
\* _get_line_containing_matches.
SelectMatches(matches, match_index) ==
    IF match_index.kind = "none" THEN SeqRange(matches)
    ELSE IF 0 <= match_index.v /\ match_index.v < Len(matches)
         THEN {matches[match_index.v + 1]}
    ELSE {}

\* Mutant of _collect_line_ranges: the separators of the lines before are
\* not counted.
CollectLineRangesNoSeparator(code, focus) ==
    LET line_number == focus.line_number
        lines == StrSplit(code)
        start == SumLen(lines, line_number, 0)
    IN IF 0 <= line_number /\ line_number < Len(lines)
       THEN {<<start, start + Len(lines[line_number + 1]), focus.style>>}
       ELSE {}

\* _collect_line_ranges
CollectLineRanges(code, focus) ==
    LET line_number == focus.line_number
        lines == StrSplit(code)
        start == SumLen(lines, line_number, 1)
    IN IF 0 <= line_number /\ line_number < Len(lines)
       THEN {<<start, start + Len(lines[line_number + 1]), focus.style>>}
       ELSE {}

\* The loop of _collect_startswith_ranges over the lines (from_start_of_line),
\* pos the offset of the first of them.
RECURSIVE StartswithLines(_, _, _, _)
StartswithLines(lines, pos, text, style) ==
    IF Len(lines) = 0 THEN {}
    ELSE LET line == lines[1]
             here == IF StrStartsWith(StrLstrip(line), text)
                     THEN {<<pos + StrFind(line, text, 0),
                             pos + Len(StrRstripNewline(line)), style>>}
                     ELSE {}
         IN here \cup StartswithLines(Tail(lines), pos + Len(line), text, style)

\* The while loop of _collect_startswith_ranges (anywhere in the buffer).
RECURSIVE StartswithOccurrences(_, _, _, _)
StartswithOccurrences(code, pos, text, style) ==
    LET start == StrFind(code, text, pos)
        newline == StrFind(code, <<"\n">>, start)
        end == IF newline = -1 THEN Len(code) ELSE newline
    IN IF start = -1 THEN {}
       ELSE {<<start, end, style>>} \cup StartswithOccurrences(code, start + 1, text, style)

\* _collect_startswith_ranges
CollectStartswithRanges(code, focus) ==
    IF focus.from_start_of_line
    THEN StartswithLines(StrSplitlines(code), 0, focus.text, focus.style)
    ELSE StartswithOccurrences(code, 0, focus.text, focus.style)

\* The characters that make _collect_between_ranges take a delimiter for a
\* regular expression.
MetaChars == {".", "^", "$", "*", "+", "?", "{", "}", "[", "]", "\\", "|", "(", ")"}

\* A delimiter of a Between focus as the pattern uses it: escaped unless it
\* holds a metacharacter.
BetweenDelimiter(text, dotall) ==
    IF \E c \in SeqRange(text) : c \in MetaChars
    THEN ReCompile(text, 1, dotall)
    ELSE ReEscape(text)

\* Mutant of the pattern of _collect_between_ranges: the quantifier is
\* ".*?" whatever greedy says.
BetweenPatternLazy(focus) ==
    LET start_pattern == BetweenDelimiter(focus.start_pattern, focus.multiline)
        end_pattern == BetweenDelimiter(focus.end_pattern, focus.multiline)
        quantifier == StarAtom(FALSE, focus.multiline)
    IN IF focus.inclusive
       THEN start_pattern \o <<quantifier>> \o end_pattern
       ELSE <<[k |-> "behind", c |-> start_pattern], quantifier,
              [k |-> "ahead", c |-> end_pattern]>>

\* The pattern of _collect_between_ranges, under its flags (multiline sets
\* re.DOTALL).
BetweenPattern(focus) ==
    LET start_pattern == BetweenDelimiter(focus.start_pattern, focus.multiline)
        end_pattern == BetweenDelimiter(focus.end_pattern, focus.multiline)
        quantifier == StarAtom(focus.greedy, focus.multiline)
    IN IF focus.inclusive
       THEN start_pattern \o <<quantifier>> \o end_pattern
       ELSE <<[k |-> "behind", c |-> start_pattern], quantifier,
              [k |-> "ahead", c |-> end_pattern]>>

\* re.finditer raises re.error in _collect_between_ranges.
BetweenRaises(focus) ==
    \/ IsInvalid(BetweenDelimiter(focus.start_pattern, focus.multiline))
    \/ IsInvalid(BetweenDelimiter(focus.end_pattern, focus.multiline))

\* _collect_between_ranges (match.start(1) and match.end(1) of the pattern
\* with lookarounds are the bounds of the match)
CollectBetweenRanges(code, focus) ==
    LET matches == FindIter(BetweenPattern(focus), code, 0)
    IN {<<m[1], m[2], focus.style>> : m \in SelectMatches(matches, focus.match_index)}

\* The test of _get_line_containing_matches on one line.
LineMatches(line, pattern, regex) ==
    IF regex THEN FindIter(ReCompile(pattern, 1, FALSE), line, 0) # <<>>
    ELSE StrFind(line, pattern, 0) # -1

\* Mutant of the loop of _get_line_containing_matches: the first line of
\* the window is not held at line 0.
RECURSIVE LineContainingFromUnclamped(_, _, _, _, _, _)
LineContainingFromUnclamped(lines, i, pattern, lines_before, lines_after, regex) ==
    IF i >= Len(lines) THEN <<>>
    ELSE LET start_idx == i - lines_before
             end_idx == Min(Len(lines), i + lines_after + 1)
             here == IF LineMatches(lines[i + 1], pattern, regex)
                     THEN <<<<SumLen(lines, start_idx, 0), SumLen(lines, end_idx, 0)>>>>
                     ELSE <<>>
         IN here \o LineContainingFromUnclamped(lines, i + 1, pattern, lines_before,
                                                lines_after, regex)

\* The loop of _get_line_containing_matches from line i (0-based) on.
RECURSIVE LineContainingFrom(_, _, _, _, _, _)
LineContainingFrom(lines, i, pattern, lines_before, lines_after, regex) ==
    IF i >= Len(lines) THEN <<>>
    ELSE LET start_idx == Max(0, i - lines_before)
             end_idx == Min(Len(lines), i + lines_after + 1)
             here == IF LineMatches(lines[i + 1], pattern, regex)
                     THEN <<<<SumLen(lines, start_idx, 0), SumLen(lines, end_idx, 0)>>>>
                     ELSE <<>>
         IN here \o LineContainingFrom(lines, i + 1, pattern, lines_before, lines_after, regex)

\* _get_line_containing_matches
GetLineContainingMatches(text, pattern, lines_before, lines_after, regex, match_index) ==
    LET matches == LineContainingFrom(StrSplitlines(text), 0, pattern,
                                      lines_before, lines_after, regex)
    IN SelectMatches(matches, match_index)

\* re.search raises re.error in _get_line_containing_matches: the pattern
\* is compiled when the first line is tested.
LineContainingRaises(code, focus) ==
    /\ focus.type = "LINE_CONTAINING_REGEX"
    /\ Len(StrSplitlines(code)) > 0
    /\ IsInvalid(ReCompile(focus.pattern, 1, FALSE))

\* The focus makes _collect_highlight_ranges raise: re.error of a pattern
\* compiled while rendering, or ValueError("Unsupported focus type") of
\* the default case.
CollectRaises(code, focus) ==
    CASE focus.type = "BETWEEN" -> BetweenRaises(focus)
      [] focus.type = "LINE_CONTAINING_REGEX" -> LineContainingRaises(code, focus)
      [] focus.type \in {"LITERAL", "REGEX", "LINE", "RANGE", "STARTSWITH",
                         "LINE_CONTAINING"} -> FALSE
      [] OTHER -> TRUE

\* The ranges of one focus: the match statement of _collect_highlight_ranges.
CollectFocusRanges(code, focus) ==
    CASE focus.type = "LITERAL" -> CollectLiteralRanges(code, focus)
      [] focus.type = "REGEX" -> CollectRegexRanges(code, focus)
      [] focus.type = "LINE" -> CollectLineRanges(code, focus)
      [] focus.type = "RANGE" -> CollectRangeRanges(code, focus)
      [] focus.type = "STARTSWITH" -> CollectStartswithRanges(code, focus)
      [] focus.type = "BETWEEN" -> CollectBetweenRanges(code, focus)
      [] focus.type \in {"LINE_CONTAINING", "LINE_CONTAINING_REGEX"} ->
             {<<m[1], m[2], focus.style>> :
                 m \in GetLineContainingMatches(
                           code, focus.pattern, focus.lines_before,
                           focus.lines_after,
                           focus.type = "LINE_CONTAINING_REGEX",
                           focus.match_index)}

\* _collect_highlight_ranges: the union, as a set, over the focus list.
CollectHighlightRanges(code, focuses) ==
    UNION {CollectFocusRanges(code, focuses[n]) : n \in 1..Len(focuses)}

(***************************************************************************)
(* Resolver.                                                               *)
(***************************************************************************)
\* The sort key of _sort_ranges: (start, -(end - start)).
KeyLeq(a, b) ==
    \/ a[1] < b[1]
    \/ a[1] = b[1] /\ -(a[2] - a[1]) <= -(b[2] - b[1])

\* Mutant of _sort_ranges: the key is the start alone.
RECURSIVE SortRangesByStart(_)
SortRangesByStart(ranges) ==
    IF ranges = {} THEN {<<>>}
    ELSE LET least == {r \in ranges : \A q \in ranges : r[1] <= q[1]}
         IN UNION {{<<r>> \o rest : rest \in SortRangesByStart(ranges \ {r})} :
                      r \in least}

\* _sort_ranges: sorted() is stable, and its input is a set, whose iteration
\* order the language leaves open: ranges with equal keys come out in any
\* order.  The set of the lists sorted(ranges, key) can return.
RECURSIVE SortRanges(_)
SortRanges(ranges) ==
    IF ranges = {} THEN {<<>>}
    ELSE LET least == {r \in ranges : \A q \in ranges : KeyLeq(r, q)}
         IN UNION {{<<r>> \o rest : rest \in SortRanges(ranges \ {r})} : r \in least}

\* Mutant of _is_overlapping: any two ranges that share an offset overlap.
IsOverlappingAny(start, end, processed) ==
    \E p \in processed : start < p[2] /\ p[1] < end

\* Mutant of _is_overlapping: only a new range that contains a processed
\* one overlaps.
IsOverlappingContainingOnly(start, end, processed) ==
    \E p \in processed : start <= p[1] /\ end >= p[2]

\* Mutant of _is_overlapping: a range equal to a processed one does not
\* overlap it.
IsOverlappingStrictly(start, end, processed) ==
    \E p \in processed :
        /\ <<p[1], p[2]>> # <<start, end>>
        /\ \/ p[1] <= start /\ p[2] >= end
           \/ start <= p[1] /\ end >= p[2]

\* _is_overlapping
IsOverlapping(start, end, processed) ==
    \E p \in processed :
        \/ p[1] <= start /\ p[2] >= end
        \/ start <= p[1] /\ end >= p[2]

(***************************************************************************)
(* rich's Text.stylize(style, start, end), as _apply_highlights calls it:  *)
(* negative offsets count from the end of the text, a span that starts at  *)
(* or after the end of the text or is empty is dropped, and the end is     *)
(* cut at the length of the text.                                          *)
(***************************************************************************)
Stylize(spans, length, style, start, end) ==
    LET s == IF start < 0 THEN length + start ELSE start
        e == IF end < 0 THEN length + end ELSE end
    IN IF s >= length \/ e <= s THEN spans
       ELSE Append(spans, <<s, IF e < length THEN e ELSE length, style>>)


(***************************************************************************)
(* State: a CodeDisplay and one call of highlight_code in progress.        *)
(***************************************************************************)
VARIABLES
    code,               \* CodeDisplay.code
    focuses,            \* CodeDisplay.focuses
    dim_background,     \* CodeDisplay.dim_background
    pc,                 \* "idle", "sweep" (inside _apply_highlights), "done"
    ranges,             \* the set _collect_highlight_ranges returned
    sorted_ranges,      \* the list _sort_ranges returned
    idx,                \* the position of the for loop in sorted_ranges
    current_pos,        \* _apply_highlights' current_pos
    processed_ranges,   \* _apply_highlights' processed_ranges
    accepted,           \* the ranges the sweep accepted, in acceptance order
    spans,              \* Text.spans of the text highlight_code builds
    previous,           \* <<spans>> of the last finished render of the
                        \* same code, focuses and dim_background, or <<>>
    highlighter_calls,  \* the calls of Syntax(...).highlight the last call
                        \* of highlight_code made
    steps,              \* Chapter.steps, <<>> for a display without chapter
    current_index,      \* Chapter.current_index
    displayed,          \* the widgets of the ContentContainer whose
                        \* styles.display is "block"
    description,        \* the text of Chapter.description: <<>> for "", or
                        \* <<k, n, d>> for "Step k/n\nd"
    app,                \* a TuitorialApp with its chapters, None without
    download,           \* a call of download_image and the files and
                        \* requests it made, None without
    terminal            \* a TerminalWidget with its event loop, pty and
                        \* subprocesses, None without

vars ==
    <<code, focuses, dim_background, pc, ranges, sorted_ranges, idx,
      current_pos, processed_ranges, accepted, spans, previous,
      highlighter_calls, steps, current_index, displayed, description,
      app, download, terminal>>

\* The fields of the Chapter and the widgets it shows.
chapter_vars == <<steps, current_index, displayed, description>>

\* The objects beside the CodeDisplay and its Chapter.
aux_vars == <<app, download, terminal>>

\* The locals and the result of a call of highlight_code.
render_vars ==
    <<pc, ranges, sorted_ranges, idx, current_pos, processed_ranges, accepted,
      spans, previous, highlighter_calls>>

\* The widgets ContentContainer.compose yields.
ContentWidgets == {"code-display", "markdown", "image-container"}

\* CodeDisplay.__init__, as ContentContainer.__init__ calls it
Init ==
    /\ code \in Codes
    /\ focuses = <<>>
    /\ dim_background = TRUE
    /\ pc = "idle"
    /\ ranges = {}
    /\ sorted_ranges = <<>>
    /\ idx = 1
    /\ current_pos = 0
    /\ processed_ranges = {}
    /\ accepted = <<>>
    /\ spans = <<>>
    /\ previous = <<>>
    /\ highlighter_calls = <<>>
    /\ steps = <<>>
    /\ current_index = 0
    /\ displayed = ContentWidgets
    /\ description = <<>>
    /\ app = None
    /\ download = None
    /\ terminal = None

Rendering == pc = "sweep"

\* Text(self.code) and the locals of a call of highlight_code that has not
\* started: refresh() discards the text rendered before.
NoRender ==
    /\ ranges' = {}
    /\ sorted_ranges' = <<>>
    /\ idx' = 1
    /\ current_pos' = 0
    /\ processed_ranges' = {}
    /\ accepted' = <<>>
    /\ spans' = <<>>
    /\ previous' = <<>>
    /\ highlighter_calls' = <<>>
    /\ pc' = "idle"

\* CodeDisplay.update_focuses.  The model follows a display through the
\* focus list of one step: the list is set on the display as constructed.
UpdateFocuses(fs) ==
    /\ ~Rendering
    /\ focuses = <<>>
    /\ focuses' = fs
    /\ NoRender
    /\ UNCHANGED <<code, dim_background>>
    /\ UNCHANGED chapter_vars
    /\ UNCHANGED aux_vars

\* Chapter.toggle_dim on a code step
ToggleDim ==
    /\ ~Rendering
    /\ dim_background' = ~dim_background
    /\ NoRender
    /\ UNCHANGED <<code, focuses>>
    /\ UNCHANGED chapter_vars
    /\ UNCHANGED aux_vars

\* validate_focuses: the exception it raises, or "None".  No constructor,
\* Step or CodeDisplay calls it.
ValidateFocuses(fs) ==
    LET markdown_focuses == Cardinality({n \in 1..Len(fs) : fs[n].type = "MARKDOWN"})
        syntax_focuses == Cardinality({n \in 1..Len(fs) : fs[n].type = "SYNTAX"})
    IN IF markdown_focuses > 1
       THEN "ValueError: Only one markdown focus is allowed per step."
       ELSE IF syntax_focuses > 1
       THEN "ValueError: Only one syntax focus is allowed per step."
       ELSE "None"

\* Mutant of SyntaxFocuses: only a Syntax focus at the head of the list is
\* seen.
SyntaxFocusesHeadOnly(fs) == {n \in 1..Len(fs) : n = 1 /\ fs[n].type = "SYNTAX"}

\* The positions of the Syntax focuses of a focus list.
SyntaxFocuses(fs) == {n \in 1..Len(fs) : fs[n].type = "SYNTAX"}

\* A line of splitlines(keepends=True) without its boundary.
StripBoundary(line) ==
    LET n == Len(line)
    IN IF n >= 2 /\ line[n - 1] = "\r" /\ line[n] = "\n" THEN SubSeq(line, 1, n - 2)
       ELSE IF n >= 1 /\ line[n] \in LineBoundaries THEN SubSeq(line, 1, n - 1)
       ELSE line

\* s.splitlines()
StrSplitlinesBare(s) ==
    LET lines == StrSplitlines(s) IN [n \in 1..Len(lines) |-> StripBoundary(lines[n])]

\* A bound of a slice, None or an int, as an offset into a list of len
\* elements.
SliceBound(bound, len, default) ==
    IF bound.kind = "none" THEN default
    ELSE IF bound.v < 0 THEN Max(0, len + bound.v)
    ELSE Min(bound.v, len)

\* lines[start:end]
ListSlice(lines, start, end) ==
    SubSeq(lines, SliceBound(start, Len(lines), 0) + 1,
           SliceBound(end, Len(lines), Len(lines)))

\* "\n".join(lines)
RECURSIVE StrJoin(_)
StrJoin(lines) ==
    IF Len(lines) = 0 THEN <<>>
    ELSE IF Len(lines) = 1 THEN lines[1]
    ELSE lines[1] \o <<"\n">> \o StrJoin(Tail(lines))

\* _highlight_with_syntax: the arguments of the one call of the highlighter.
HighlightWithSyntax(c, focus) ==
    [code |-> IF focus.start_line.kind # "none" \/ focus.end_line.kind # "none"
              THEN StrJoin(ListSlice(StrSplitlinesBare(c), focus.start_line,
                                     focus.end_line))
              ELSE c,
     lexer |-> focus.lexer,
     theme |-> IF focus.theme.kind = "none" THEN "default" ELSE focus.theme.v,
     line_numbers |-> focus.line_numbers]

\* CodeDisplay.highlight_code with a Syntax focus in the list: the text is
\* the one the highlighter returns for the first of them.
HighlightCodeSyntax ==
    /\ ~Rendering
    /\ SyntaxFocuses(focuses) # {}
    /\ highlighter_calls' =
           <<HighlightWithSyntax(code, focuses[Least(SyntaxFocuses(focuses))])>>
    /\ ranges' = {}
    /\ sorted_ranges' = <<>>
    /\ idx' = 1
    /\ current_pos' = 0
    /\ processed_ranges' = {}
    /\ accepted' = <<>>
    /\ spans' = <<>>
    /\ previous' = <<>>
    /\ pc' = "syntax"
    /\ UNCHANGED <<code, focuses, dim_background>>
    /\ UNCHANGED chapter_vars
    /\ UNCHANGED aux_vars

\* CodeDisplay.highlight_code when _collect_highlight_ranges raises: the
\* exception leaves render().
HighlightCodeRaises ==
    /\ ~Rendering
    /\ SyntaxFocuses(focuses) = {}
    /\ \E n \in 1..Len(focuses) : CollectRaises(code, focuses[n])
    /\ ranges' = {}
    /\ sorted_ranges' = <<>>
    /\ idx' = 1
    /\ current_pos' = 0
    /\ processed_ranges' = {}
    /\ accepted' = <<>>
    /\ spans' = <<>>
    /\ previous' = <<>>
    /\ highlighter_calls' = <<>>
    /\ pc' = "error"
    /\ UNCHANGED <<code, focuses, dim_background>>
    /\ UNCHANGED chapter_vars
    /\ UNCHANGED aux_vars

\* CodeDisplay.highlight_code up to the call of _apply_highlights, and the
\* first two lines of _apply_highlights.
HighlightCode ==
    /\ ~Rendering
    /\ SyntaxFocuses(focuses) = {}
    /\ \A n \in 1..Len(focuses) : ~CollectRaises(code, focuses[n])
    /\ ranges' = CollectHighlightRanges(code, focuses)
    /\ sorted_ranges' \in SortRanges(ranges')
    /\ idx' = 1
    /\ current_pos' = 0
    /\ processed_ranges' = {}
    /\ accepted' = <<>>
    /\ spans' = <<>>
    /\ previous' = IF pc = "done" THEN <<spans>> ELSE <<>>
    /\ highlighter_calls' = <<>>
    /\ pc' = "sweep"
    /\ UNCHANGED <<code, focuses, dim_background>>
    /\ UNCHANGED chapter_vars
    /\ UNCHANGED aux_vars

\* Mutant of the body of the for loop of _apply_highlights: the gap before
\* a highlight is dimmed whatever dim_background says.
SweepBodyAlwaysDims(start, end, style) ==
    IF IsOverlapping(start, end, processed_ranges)
    THEN UNCHANGED <<spans, processed_ranges, accepted, current_pos>>
    ELSE /\ spans' =
              Stylize(IF current_pos < start
                      THEN Stylize(spans, Len(code), DimStyle, current_pos, start)
                      ELSE spans,
                      Len(code), style, start, end)
         /\ processed_ranges' = processed_ranges \cup {<<start, end>>}
         /\ accepted' = Append(accepted, <<start, end, style>>)
         /\ current_pos' = Max(current_pos, end)

\* The body of the for loop of _apply_highlights, for one range.
SweepBody(start, end, style) ==
    IF IsOverlapping(start, end, processed_ranges)
    THEN UNCHANGED <<spans, processed_ranges, accepted, current_pos>>
    ELSE /\ spans' =
              Stylize(IF dim_background /\ current_pos < start
                      THEN Stylize(spans, Len(code), DimStyle, current_pos, start)
                      ELSE spans,
                      Len(code), style, start, end)
         /\ processed_ranges' = processed_ranges \cup {<<start, end>>}
         /\ accepted' = Append(accepted, <<start, end, style>>)
         /\ current_pos' = Max(current_pos, end)

\* One iteration of the for loop of _apply_highlights.
SweepStep ==
    /\ pc = "sweep"
    /\ idx <= Len(sorted_ranges)
    /\ SweepBody(sorted_ranges[idx][1], sorted_ranges[idx][2], sorted_ranges[idx][3])
    /\ idx' = idx + 1
    /\ UNCHANGED <<code, focuses, dim_background, pc, ranges, sorted_ranges, previous>>
    /\ UNCHANGED highlighter_calls
    /\ UNCHANGED chapter_vars
    /\ UNCHANGED aux_vars

\* The end of _apply_highlights: dim the remaining text; highlight_code
\* returns the text.
SweepEnd ==
    /\ pc = "sweep"
    /\ idx > Len(sorted_ranges)
    /\ spans' = IF dim_background /\ current_pos < Len(code)
                THEN Stylize(spans, Len(code), DimStyle, current_pos, Len(code))
                ELSE spans
    /\ pc' = "done"
    /\ UNCHANGED <<code, focuses, dim_background, ranges, sorted_ranges, idx,
                   current_pos, processed_ranges, accepted, previous>>
    /\ UNCHANGED highlighter_calls
    /\ UNCHANGED chapter_vars
    /\ UNCHANGED aux_vars

Next ==
    \/ \E fs \in FocusLists(code) : UpdateFocuses(fs)
    \/ ToggleDim
    \/ HighlightCode
    \/ SweepStep
    \/ SweepEnd

Spec == Init /\ [][Next]_vars

(***************************************************************************)
(* The display under the focus list of one step, for every kind of focus:  *)
(* buffers of several lines, and focus lists of one focus or of a Syntax   *)
(* or Markdown focus with another focus.                                   *)
(***************************************************************************)
\* The longest generic buffer of lines.
MaxBufLen == 3

\* A word character, a blank and two line boundaries.
StepAlphabet == {"a", " ", "\n", "\r"}

StepGenericCodes == UNION {[1..n -> StepAlphabet] : n \in 0..MaxBufLen}

\* "<a><b>"
CodeAngle == <<"<", "a", ">", "<", "b", ">">>

\* "a\na\nX\na\na": five lines, the third holds "X"
CodeFiveLines == <<"a", "\n", "a", "\n", "X", "\n", "a", "\n", "a">>

\* "line1\nline2"  (tests/test_widgets.py, test_highlight_patterns)
CodeTwoLines == <<"l", "i", "n", "e", "1", "\n", "l", "i", "n", "e", "2">>

StepCodes == StepGenericCodes \cup {CodeAngle, CodeFiveLines, CodeTwoLines}

BooleanPairs == BOOLEAN \X BOOLEAN

\* The line numbers tried: from below 0 to beyond the last line of the
\* longest generic buffer.
LineNumbers == (-1)..(MaxBufLen + 1)

\* The match_index values tried: from below 0 to beyond the last match.
MatchIndexes == (-1)..(MaxBufLen + 1)

PlainSyntax == FocusSyntax("python", None, FALSE, None, None)

SlicedSyntax == FocusSyntax("rust", None, TRUE, Index(1), None)

\* The focuses tried on the generic buffers of lines.  Focus.regex("[")
\* raises and leaves no focus.
GenericStepFocuses ==
    ({ FocusLiteral(<<"a">>, Yellow, FALSE),
       FocusLiteralIndexed(<<"a">>, Yellow, FALSE, Index(1)),
       FocusLiteralIndexed(<<"a">>, Yellow, FALSE, IndexList(<<0>>)),
       FocusLiteralIndexed(<<"a">>, Yellow, TRUE, Index(0)),
       FocusRegex(<<"a", ".">>, Green),
       FocusRegex(<<"[">>, Green),
       FocusStartswith(<<"a">>, Yellow, TRUE),
       FocusStartswith(<<"a">>, Yellow, FALSE),
       FocusStartswith(<<"a", "a">>, Yellow, FALSE),
       FocusBetween(<<"[">>, <<" ">>, Yellow, TRUE, TRUE, None, FALSE),
       FocusBetween(<<".">>, <<" ">>, Yellow, TRUE, TRUE, None, FALSE),
       FocusLineContaining(<<"a">>, Yellow, 0, 0, TRUE, None),
       FocusLineContaining(<<"[">>, Yellow, 0, 0, TRUE, None),
       FocusLineContaining(<<"a">>, Yellow, 0, 0, FALSE, Index(1)),
       PlainSyntax, SlicedSyntax, FocusMarkdown }
     \cup {FocusLine(n, Yellow) : n \in LineNumbers}
     \cup {FocusBetween(<<"a">>, <<" ">>, Yellow, TRUE, b[1], None, b[2]) :
              b \in BooleanPairs}
     \cup {FocusBetween(<<"a">>, <<" ">>, Yellow, FALSE, TRUE, None, g) :
              g \in BOOLEAN}
     \cup {FocusLineContaining(<<"a">>, Yellow, b, a, FALSE, None) :
              b \in 0..1, a \in 0..1}
     \cup {FocusBetween(<<"a">>, <<" ">>, Yellow, FALSE, TRUE, Index(k), FALSE) :
              k \in MatchIndexes}
     \cup {FocusLineContaining(<<"a">>, Yellow, 1, 1, r, Index(k)) :
              r \in BOOLEAN, k \in MatchIndexes})
        \ {ConstructionError}

\* The focus lists with a Syntax or a Markdown focus and another focus.
MixedFocusLists ==
    { <<PlainSyntax, SlicedSyntax>>,
      <<SlicedSyntax, PlainSyntax>>,
      <<FocusLiteral(<<"a">>, Yellow, FALSE), PlainSyntax>>,
      <<PlainSyntax, FocusLiteral(<<"a">>, Yellow, FALSE)>>,
      <<FocusMarkdown, FocusMarkdown>>,
      <<FocusMarkdown, PlainSyntax>> }

\* The focus lists tried on a buffer of StepCodes.
StepFocusLists(c) ==
    IF c = CodeAngle
    THEN {<<FocusBetween(<<"<">>, <<">">>, Yellow, i, TRUE, None, g)>> :
             i \in BOOLEAN, g \in BOOLEAN}
         \cup {<<FocusBetween(<<"<">>, <<">">>, Yellow, i, TRUE, Index(k), FALSE)>> :
                  i \in BOOLEAN, k \in MatchIndexes}
    ELSE IF c = CodeFiveLines
    THEN {<<FocusLineContaining(<<"X">>, Yellow, n, n, FALSE, None)>> : n \in 0..1}
         \cup {<<FocusLineContaining(<<"a">>, Yellow, 0, 1, r, Index(k))>> :
                  r \in BOOLEAN, k \in MatchIndexes}
    ELSE IF c = CodeTwoLines
    THEN {<<FocusLine(n, Yellow)>> : n \in 0..2}
    ELSE {<<f>> : f \in GenericStepFocuses} \cup MixedFocusLists

StepInit ==
    /\ code \in StepCodes
    /\ focuses = <<>>
    /\ dim_background = TRUE
    /\ pc = "idle"
    /\ ranges = {}
    /\ sorted_ranges = <<>>
    /\ idx = 1
    /\ current_pos = 0
    /\ processed_ranges = {}
    /\ accepted = <<>>
    /\ spans = <<>>
    /\ previous = <<>>
    /\ highlighter_calls = <<>>
    /\ steps = <<>>
    /\ current_index = 0
    /\ displayed = ContentWidgets
    /\ description = <<>>
    /\ app = None
    /\ download = None
    /\ terminal = None

StepNext ==
    \/ \E fs \in StepFocusLists(code) : UpdateFocuses(fs)
    \/ ToggleDim
    \/ HighlightCode
    \/ HighlightCodeSyntax
    \/ HighlightCodeRaises
    \/ SweepStep
    \/ SweepEnd

StepSpec == StepInit /\ [][StepNext]_vars

(***************************************************************************)
(* A Chapter and its navigation: the step index, the widget the            *)
(* ContentContainer shows and the description.                             *)
(***************************************************************************)
MaxSteps == 3

\* Step(description, focuses) with focuses for the code display.
CodeStep ==
    [kind |-> "Step", description |-> "code",
     focuses |-> <<FocusLiteral(<<"a">>, Yellow, FALSE)>>]

\* Step(description, [Focus.markdown()])
MarkdownStep ==
    [kind |-> "Step", description |-> "markdown", focuses |-> <<FocusMarkdown>>]

\* ImageStep(description, image)
PictureStep ==
    [kind |-> "ImageStep", description |-> "image", image |-> "image.png"]

\* Step("", []), the current step of a chapter without steps.
EmptyStep == [kind |-> "Step", description |-> "", focuses |-> <<>>]

StepValues == {CodeStep, MarkdownStep, PictureStep}

\* The step lists a Chapter is constructed with.
StepLists == UNION {[1..n -> StepValues] : n \in 0..MaxSteps}

\* Chapter.current_step, were current_index index.
CurrentStep(index) == IF steps = <<>> THEN EmptyStep ELSE steps[index + 1]

\* The branch of ContentContainer.update_display that ends in show_code.
ShowsCode(step) ==
    /\ step.kind = "Step"
    /\ ~\E n \in 1..Len(step.focuses) : step.focuses[n].type = "MARKDOWN"

\* ContentContainer.update_display: show_image, show_markdown or show_code.
ContentUpdateDisplay(step) ==
    IF step.kind = "ImageStep"
    THEN displayed' = {"image-container"} /\ UNCHANGED focuses
    ELSE IF ~ShowsCode(step)
    THEN displayed' = {"markdown"} /\ UNCHANGED focuses
    ELSE displayed' = {"code-display"} /\ focuses' = step.focuses

\* Chapter.update_display once current_index is index.  The code display is
\* refreshed by show_code (update_focuses), or was by the caller.
UpdateDisplay(index, refreshed) ==
    LET step == CurrentStep(index)
    IN /\ ContentUpdateDisplay(step)
       /\ description' = <<index + 1, Len(steps), step.description>>
       /\ IF ShowsCode(step) \/ refreshed THEN NoRender ELSE UNCHANGED render_vars

\* Chapter.on_mount, Chapter.on_resize
OnMount ==
    /\ pc # "error"
    /\ UpdateDisplay(current_index, FALSE)
    /\ UNCHANGED <<code, dim_background, steps, current_index>>
    /\ UNCHANGED aux_vars

\* Chapter.next_step
NextStep ==
    /\ pc # "error"
    /\ Len(steps) # 0
    /\ LET index == (current_index + 1) % Len(steps)
       IN /\ current_index' = index
          /\ UpdateDisplay(index, FALSE)
    /\ UNCHANGED <<code, dim_background, steps>>
    /\ UNCHANGED aux_vars

\* Mutant of Chapter.previous_step: the index stops at 0.
PreviousStepStopsAtZero ==
    /\ pc # "error"
    /\ Len(steps) # 0
    /\ LET index == Max(0, current_index - 1)
       IN /\ current_index' = index
          /\ UpdateDisplay(index, FALSE)
    /\ UNCHANGED <<code, dim_background, steps>>
    /\ UNCHANGED aux_vars

\* Chapter.previous_step
PreviousStep ==
    /\ pc # "error"
    /\ Len(steps) # 0
    /\ LET index == (current_index - 1) % Len(steps)
       IN /\ current_index' = index
          /\ UpdateDisplay(index, FALSE)
    /\ UNCHANGED <<code, dim_background, steps>>
    /\ UNCHANGED aux_vars

\* Chapter.next_step and Chapter.previous_step on a chapter without steps:
\* the modulo raises ZeroDivisionError before anything is assigned.
NavigateRaises ==
    /\ pc # "error"
    /\ Len(steps) = 0
    /\ pc' = "error"
    /\ UNCHANGED <<code, focuses, dim_background, ranges, sorted_ranges, idx,
                   current_pos, processed_ranges, accepted, spans, previous,
                   highlighter_calls>>
    /\ UNCHANGED chapter_vars
    /\ UNCHANGED aux_vars

\* Chapter.reset_step
ResetStep ==
    /\ pc # "error"
    /\ current_index' = 0
    /\ UpdateDisplay(0, FALSE)
    /\ UNCHANGED <<code, dim_background, steps>>
    /\ UNCHANGED aux_vars

\* Chapter.toggle_dim when the current step is a Step (it does nothing on
\* an ImageStep).
ToggleDimStep ==
    /\ pc # "error"
    /\ CurrentStep(current_index).kind = "Step"
    /\ dim_background' = ~dim_background
    /\ UpdateDisplay(current_index, TRUE)
    /\ UNCHANGED <<code, steps, current_index>>
    /\ UNCHANGED aux_vars

\* Chapter.__init__ with its ContentContainer
NavInit ==
    /\ code = <<"a">>
    /\ focuses = <<>>
    /\ dim_background = TRUE
    /\ pc = "idle"
    /\ ranges = {}
    /\ sorted_ranges = <<>>
    /\ idx = 1
    /\ current_pos = 0
    /\ processed_ranges = {}
    /\ accepted = <<>>
    /\ spans = <<>>
    /\ previous = <<>>
    /\ highlighter_calls = <<>>
    /\ steps \in StepLists
    /\ current_index = 0
    /\ displayed = ContentWidgets
    /\ description = <<>>
    /\ app = None
    /\ download = None
    /\ terminal = None

NavNext ==
    \/ OnMount
    \/ ResetStep
    \/ NextStep
    \/ PreviousStep
    \/ NavigateRaises
    \/ ToggleDimStep

NavSpec == NavInit /\ [][NavNext]_vars

(***************************************************************************)
(* A TuitorialApp and its chapters (src/tuitorial/app.py).  A chapter is a *)
(* record of the fields of app.py's Chapter: steps, current_index, the     *)
(* dim_background and focuses of its code display, the set of its widgets  *)
(* whose visible is True, and the text of its description.                 *)
(***************************************************************************)
\* The longest step list of a chapter of the app.
MaxAppSteps == 3

\* The titles of the chapters of the app, one tab each.
ChapterTitles == <<"first", "second">>

ChapterCount == Len(ChapterTitles)

\* The longest step list of the chapters after the first.
OtherChapterSteps == MaxAppSteps - 2

\* MarkdownStep(description, markdown)
AppMarkdownStep ==
    [kind |-> "MarkdownStep", description |-> "markdown", markdown |-> "# md"]

AppStepValues == {CodeStep, AppMarkdownStep, PictureStep}

\* The step lists chapter c of the app is constructed with.
AppStepLists(c) ==
    UNION {[1..n -> AppStepValues] :
               n \in 0..(IF c = 1 THEN MaxAppSteps ELSE OtherChapterSteps)}

\* Chapter.__init__
NewChapter(step_list) ==
    [steps |-> step_list,
     current_index |-> 0,
     dim_background |-> TRUE,
     focuses |-> <<>>,
     visible |-> {"code_display"},
     markdown |-> "",
     description |-> <<>>]

\* Chapter.current_step
ChapterCurrentStep(ch) ==
    IF ch.steps = <<>> THEN EmptyStep ELSE ch.steps[ch.current_index + 1]

\* Mutant of Chapter.update_display: the branch of a MarkdownStep leaves
\* the code display as it was.
ChapterUpdateDisplayKeepsCode(ch) ==
    LET step == ChapterCurrentStep(ch)
        shown == IF step.kind = "Step"
                 THEN [ch EXCEPT !.visible = {"code_display"},
                                 !.focuses = step.focuses]
                 ELSE IF step.kind = "MarkdownStep"
                 THEN [ch EXCEPT !.visible = (@ \ {"image_container"})
                                                 \cup {"markdown_container"},
                                 !.markdown = step.markdown]
                 ELSE [ch EXCEPT !.visible = {"image_container"}]
    IN [shown EXCEPT
           !.description = <<ch.current_index + 1, Len(ch.steps), step.description>>]

\* Chapter.update_display
ChapterUpdateDisplay(ch) ==
    LET step == ChapterCurrentStep(ch)
        shown == IF step.kind = "Step"
                 THEN [ch EXCEPT !.visible = {"code_display"},
                                 !.focuses = step.focuses]
                 ELSE IF step.kind = "MarkdownStep"
                 THEN [ch EXCEPT !.visible = {"markdown_container"},
                                 !.markdown = step.markdown]
                 ELSE [ch EXCEPT !.visible = {"image_container"}]
    IN [shown EXCEPT
           !.description = <<ch.current_index + 1, Len(ch.steps), step.description>>]

\* Chapter.next_step, for a chapter with steps
ChapterNextStep(ch) ==
    ChapterUpdateDisplay(
        [ch EXCEPT !.current_index = (@ + 1) % Len(ch.steps)])

\* Chapter.previous_step, for a chapter with steps
ChapterPreviousStep(ch) ==
    ChapterUpdateDisplay(
        [ch EXCEPT !.current_index = (@ - 1) % Len(ch.steps)])

\* Chapter.reset_step
ChapterResetStep(ch) ==
    ChapterUpdateDisplay([ch EXCEPT !.current_index = 0])

\* Chapter.toggle_dim
ChapterToggleDim(ch) ==
    IF ChapterCurrentStep(ch).kind = "Step"
    THEN ChapterUpdateDisplay([ch EXCEPT !.dim_background = ~@])
    ELSE ch

\* The variables of the model that an app without terminal or download
\* leaves alone.
beside_app_vars ==
    <<code, focuses, dim_background, ranges, sorted_ranges, idx, current_pos,
      processed_ranges, accepted, spans, previous, highlighter_calls, steps,
      current_index, displayed, description, download, terminal>>

\* The position of the current chapter in app.chapters (1-based).
Current == app.current_chapter_index + 1

\* An action handler of the app: the method of the current chapter, which
\* gives chapter, then TuitorialApp.update_display.  The app serves its key bindings once its
\* chapters are mounted.
OnCurrentChapter(chapter) ==
    /\ pc # "error"
    /\ \A c \in 1..ChapterCount : app.chapters[c].description # <<>>
    /\ app' = [app EXCEPT !.chapters[Current] = ChapterUpdateDisplay(chapter)]
    /\ UNCHANGED pc
    /\ UNCHANGED beside_app_vars

\* Chapter.on_mount and Chapter.on_resize of chapter c
ChapterOnMount(c) ==
    /\ pc # "error"
    /\ app' = [app EXCEPT !.chapters[c] = ChapterUpdateDisplay(@)]
    /\ UNCHANGED pc
    /\ UNCHANGED beside_app_vars

\* Mutant of TuitorialApp.on_change: the activated chapter starts over.
OnChangeResetsStep(index) ==
    /\ pc # "error"
    /\ app' = [app EXCEPT !.current_chapter_index = index,
                          !.chapters[index + 1] = ChapterResetStep(@)]
    /\ UNCHANGED pc
    /\ UNCHANGED beside_app_vars

\* TuitorialApp.on_change for the tab "chapter_<index>"
OnChange(index) ==
    /\ pc # "error"
    /\ app' = [app EXCEPT !.current_chapter_index = index]
    /\ UNCHANGED pc
    /\ UNCHANGED beside_app_vars

\* TuitorialApp.action_next_focus
ActionNextFocus ==
    /\ app.chapters[Current].steps # <<>>
    /\ OnCurrentChapter(ChapterNextStep(app.chapters[Current]))

\* TuitorialApp.action_previous_focus
ActionPreviousFocus ==
    /\ app.chapters[Current].steps # <<>>
    /\ OnCurrentChapter(ChapterPreviousStep(app.chapters[Current]))

\* TuitorialApp.action_next_focus and action_previous_focus when the
\* current chapter has no step: ZeroDivisionError in the chapter's method.
ActionFocusRaises ==
    /\ pc # "error"
    /\ \A c \in 1..ChapterCount : app.chapters[c].description # <<>>
    /\ app.chapters[Current].steps = <<>>
    /\ pc' = "error"
    /\ UNCHANGED app
    /\ UNCHANGED beside_app_vars

\* TuitorialApp.action_reset_focus
ActionResetFocus ==
    /\ app.chapters[Current].current_index \in 0..MaxAppSteps
    /\ OnCurrentChapter(ChapterResetStep(app.chapters[Current]))

\* TuitorialApp.action_toggle_dim
ActionToggleDim ==
    /\ app.chapters[Current].dim_background \in BOOLEAN
    /\ OnCurrentChapter(ChapterToggleDim(app.chapters[Current]))

\* TuitorialApp.__init__ on chapters just constructed
AppInit ==
    /\ code = <<"a">>
    /\ focuses = <<>>
    /\ dim_background = TRUE
    /\ pc = "idle"
    /\ ranges = {}
    /\ sorted_ranges = <<>>
    /\ idx = 1
    /\ current_pos = 0
    /\ processed_ranges = {}
    /\ accepted = <<>>
    /\ spans = <<>>
    /\ previous = <<>>
    /\ highlighter_calls = <<>>
    /\ steps = <<>>
    /\ current_index = 0
    /\ displayed = ContentWidgets
    /\ description = <<>>
    /\ \E first \in AppStepLists(1), other \in AppStepLists(ChapterCount) :
           app = [chapters |-> [c \in 1..ChapterCount |->
                                    NewChapter(IF c = 1 THEN first ELSE other)],
                  current_chapter_index |-> 0]
    /\ download = None
    /\ terminal = None

AppNext ==
    \/ \E c \in 1..ChapterCount : ChapterOnMount(c)
    \/ \E index \in 0..(ChapterCount - 1) : OnChange(index)
    \/ ActionResetFocus
    \/ ActionNextFocus
    \/ ActionPreviousFocus
    \/ ActionToggleDim
    \/ ActionFocusRaises

AppSpec == AppInit /\ [][AppNext]_vars

(***************************************************************************)
(* download_image (src/tuitorial/_utils.py).  The variable download holds  *)
(* the position in download_image, the URL, the names in the temporary     *)
(* directory, the handle of the temporary file, tmp_path, the response,    *)
(* the image, and the exception that left the function.  The package runs  *)
(* on POSIX systems only (terminal_widget imports pty and termios), where  *)
(* os.unlink removes the name of a file that still has open handles.       *)
(***************************************************************************)
MAX_FILE_SIZE == 10 * 1024 * 1024
MAX_IMAGE_DIMENSION == 4096
MIN_IMAGE_DIMENSION == 1
ALLOWED_CONTENT_TYPES == {"image/jpeg", "image/png", "image/gif", "image/webp"}
ALLOWED_FILE_EXTENSIONS == {".jpg", ".jpeg", ".png", ".gif", ".webp"}

\* str.lower on the extensions and formats of the model
Lower(str) ==
    CASE str = ".PNG" -> ".png"
      [] str = "PNG" -> "png"
      [] str = "GIF" -> "gif"
      [] str = "JPEG" -> "jpeg"
      [] str = "BMP" -> "bmp"
      [] OTHER -> str

\* The URLs of the model, as urlparse splits them; ext is the end of the
\* path from its last dot.
Urls ==
    [scheme : {"http", "https", "ftp"},
     netloc : {"", "host"},
     ext : {".png", ".PNG", ".gif", ".jpg", ".exe", ""}]

\* _validate_url: the condition under which it returns
UrlIsValid(url) ==
    /\ url.scheme \in {"http", "https"}
    /\ url.netloc # ""
    /\ Lower(url.ext) \in ALLOWED_FILE_EXTENSIONS

\* _validate_url: the extension it returns
FileExt(url) == Lower(url.ext)

\* EXTENSION_TO_FORMAT.get(file_ext)
ExpectedFormat(file_ext) ==
    CASE file_ext \in {".jpg", ".jpeg"} -> "jpeg"
      [] file_ext = ".png" -> "png"
      [] file_ext = ".gif" -> "gif"
      [] file_ext = ".webp" -> "webp"
      [] OTHER -> "None"

\* format_to_mime.get(img.format) of _verify_image_format
DetectedMime(format) ==
    CASE format = "JPEG" -> "image/jpeg"
      [] format = "PNG" -> "image/png"
      [] format = "GIF" -> "image/gif"
      [] format = "WEBP" -> "image/webp"
      [] OTHER -> "None"

\* The responses a server gives: status, content-length header (0: none),
\* content-type header ("": none).
Responses ==
    [status : {200, 404},
     content_length : {0, 100, MAX_FILE_SIZE + 1},
     content_type : {"image/png", "image/gif", "text/html", ""}]

\* The images PIL opens: format ("None": undetermined), size, and whether
\* load() decodes the data.
Images ==
    [format : {"PNG", "GIF", "BMP", "None"},
     width : {0, 100, MAX_IMAGE_DIMENSION + 1},
     height : {100, MAX_IMAGE_DIMENSION + 1},
     loadable : BOOLEAN]

\* The name of the temporary file.
TmpName == "tmp"

\* os.unlink under suppress(OSError): the name is gone, and a name that is
\* not there raises FileNotFoundError, which is suppressed.
Unlink(files, name) == files \ {name}

\* Mutant of the finally of _temp_file: the file is closed but its name
\* stays.
ExitTempFileKeepsFile(d) ==
    [d EXCEPT !.tmp_open = FALSE]

\* The finally of _temp_file: close, then unlink.
ExitTempFile(d) ==
    [d EXCEPT !.tmp_open = FALSE, !.files = Unlink(@, TmpName)]

\* The finally of download_image: unlink tmp_path if it is set.
FinallyUnlink(d) ==
    IF d.tmp_path # "None"
    THEN [d EXCEPT !.files = Unlink(@, d.tmp_path)]
    ELSE d

\* An exception raised inside the with block of _download_to_tempfile: it
\* leaves _temp_file, then download_image, whose tmp_path is not assigned.
RaisedInside(d, error) ==
    [FinallyUnlink(ExitTempFile(d)) EXCEPT !.pc = "raised", !.error = error]

\* An exception raised in download_image after _download_to_tempfile.
RaisedAfter(d, error) ==
    [FinallyUnlink(d) EXCEPT !.pc = "raised", !.error = error]

\* The variables of the model that download_image leaves alone.
beside_download_vars ==
    <<code, focuses, dim_background, pc, ranges, sorted_ranges, idx,
      current_pos, processed_ranges, accepted, spans, previous,
      highlighter_calls, steps, current_index, displayed, description, app,
      terminal>>

\* download_image up to the try: _validate_url
ValidateUrl ==
    /\ download.pc = "validate_url"
    /\ download' =
           IF UrlIsValid(download.url)
           THEN [download EXCEPT !.pc = "temp_file",
                                 !.file_ext = FileExt(download.url)]
           ELSE [download EXCEPT !.pc = "raised", !.error = "ValueError"]
    /\ UNCHANGED beside_download_vars

\* _temp_file up to its yield
TempFile ==
    /\ download.pc = "temp_file"
    /\ download' = [download EXCEPT !.pc = "stream",
                                    !.files = @ \cup {TmpName},
                                    !.created = @ + 1,
                                    !.tmp_open = TRUE]
    /\ UNCHANGED beside_download_vars

\* client.stream("GET", url): a response, or an httpx transport error
ClientStream ==
    /\ download.pc = "stream"
    /\ \/ \E response \in Responses :
              download' = [download EXCEPT !.pc = "raise_for_status",
                                           !.requests = @ + 1,
                                           !.response = response]
       \/ download' = RaisedInside([download EXCEPT !.requests = @ + 1],
                                   "HTTPError")
    /\ UNCHANGED beside_download_vars

\* response.raise_for_status()
RaiseForStatus ==
    /\ download.pc = "raise_for_status"
    /\ download' =
           IF download.response.status = 200
           THEN [download EXCEPT !.pc = "validate_headers"]
           ELSE RaisedInside(download, "HTTPError")
    /\ UNCHANGED beside_download_vars

\* _validate_response_headers
ValidateResponseHeaders ==
    /\ download.pc = "validate_headers"
    /\ download' =
           IF \/ /\ download.response.content_length # 0
                 /\ download.response.content_length > MAX_FILE_SIZE
              \/ download.response.content_type \notin ALLOWED_CONTENT_TYPES
           THEN RaisedInside(download, "ValueError")
           ELSE [download EXCEPT !.pc = "stream_to_file"]
    /\ UNCHANGED beside_download_vars

\* _stream_to_file, for a body of size bytes
StreamToFile ==
    /\ download.pc = "stream_to_file"
    /\ \E size \in {100, MAX_FILE_SIZE + 1} :
           download' =
               IF size > MAX_FILE_SIZE
               THEN RaisedInside(download, "ValueError")
               ELSE [download EXCEPT !.pc = "open", !.written = size]
    /\ UNCHANGED beside_download_vars

\* Image.open(tmp_file.name): an image, or an exception that is raised
\* again as ImageValidationError
ImageOpen ==
    /\ download.pc = "open"
    /\ \/ \E img \in Images :
              download' = [download EXCEPT !.pc = "verify_format", !.img = img]
       \/ download' = RaisedInside(download, "ImageValidationError")
    /\ UNCHANGED beside_download_vars

\* _verify_image_format, then the return of _download_to_tempfile, which
\* leaves _temp_file and assigns tmp_path
VerifyImageFormat ==
    /\ download.pc = "verify_format"
    /\ download' =
           IF \/ download.img.format = "None"
              \/ DetectedMime(download.img.format) \notin ALLOWED_CONTENT_TYPES
           THEN RaisedInside(download, "ValueError")
           ELSE [ExitTempFile(download) EXCEPT !.pc = "load",
                                               !.tmp_path = TmpName]
    /\ UNCHANGED beside_download_vars

\* img.load()
ImageLoad ==
    /\ download.pc = "load"
    /\ download' =
           IF download.img.loadable
           THEN [download EXCEPT !.pc = "validate_image"]
           ELSE RaisedAfter(download, "OSError")
    /\ UNCHANGED beside_download_vars

\* _validate_image, then return img through the finally
ValidateImage ==
    /\ download.pc = "validate_image"
    /\ download' =
           LET img == download.img
           IN IF \/ img.width > MAX_IMAGE_DIMENSION
                 \/ img.height > MAX_IMAGE_DIMENSION
                 \/ img.width < MIN_IMAGE_DIMENSION
                 \/ img.height < MIN_IMAGE_DIMENSION
                 \/ Lower(img.format) # ExpectedFormat(download.file_ext)
              THEN RaisedAfter(download, "ImageValidationError")
              ELSE [FinallyUnlink(download) EXCEPT !.pc = "returned"]
    /\ UNCHANGED beside_download_vars

\* A call download_image(url) in a temporary directory without the file.
DownloadInit ==
    /\ code = <<"a">>
    /\ focuses = <<>>
    /\ dim_background = TRUE
    /\ pc = "idle"
    /\ ranges = {}
    /\ sorted_ranges = <<>>
    /\ idx = 1
    /\ current_pos = 0
    /\ processed_ranges = {}
    /\ accepted = <<>>
    /\ spans = <<>>
    /\ previous = <<>>
    /\ highlighter_calls = <<>>
    /\ steps = <<>>
    /\ current_index = 0
    /\ displayed = ContentWidgets
    /\ description = <<>>
    /\ app = None
    /\ \E url \in Urls :
           download = [pc |-> "validate_url",
                       url |-> url,
                       file_ext |-> "None",
                       files |-> {},
                       created |-> 0,
                       tmp_open |-> FALSE,
                       tmp_path |-> "None",
                       requests |-> 0,
                       response |-> None,
                       written |-> 0,
                       img |-> None,
                       error |-> "None"]
    /\ terminal = None

DownloadNext ==
    \/ ValidateUrl
    \/ TempFile
    \/ ClientStream
    \/ RaiseForStatus
    \/ ValidateResponseHeaders
    \/ StreamToFile
    \/ ImageOpen
    \/ VerifyImageFormat
    \/ ImageLoad
    \/ ValidateImage

DownloadSpec == DownloadInit /\ [][DownloadNext]_vars

(***************************************************************************)
(* TerminalWidget (src/tuitorial/terminal_widget.py).  The variable        *)
(* terminal holds the fields _master_fd, _process (0 for None), _loop      *)
(* (whether it is set) and _reader_registered, the readers of the event    *)
(* loop, the open master fds, the status of every subprocess spawned, and  *)
(* the position of the _start_terminal and _stop_terminal calls in flight. *)
(* Both are coroutines without a lock: each is cut at its await points,    *)
(* and the other one, a key or the pty reader may run in between.          *)
(***************************************************************************)
\* The calls of _start_terminal.
MaxStarts == 2

\* The calls of _stop_terminal.
MaxStops == 2

\* The keys that are written to the pty.
MaxKeys == 2

\* Process.returncode is set: terminate() raises ProcessLookupError.
Finished == {"exited", "terminated", "killed"}

\* TerminalWidget._register_reader
RegisterReader(t) ==
    IF ~t.loop \/ t.master_fd = 0
    THEN t
    ELSE [t EXCEPT !.readers = @ \cup {t.master_fd},
                   !.reader_registered = TRUE,
                   !.registrations = @ + 1]

\* Mutant of the removal of the reader: the flag stays set.
RemoveReaderKeepsFlag(t) ==
    [t EXCEPT !.readers = @ \ {t.master_fd},
              !.removals = @ + 1]

\* loop.remove_reader(self._master_fd); self._reader_registered = False
RemoveReader(t) ==
    [t EXCEPT !.readers = @ \ {t.master_fd},
              !.reader_registered = FALSE,
              !.removals = @ + 1]

\* The first statement of _stop_terminal.
StopReader(t) ==
    IF t.reader_registered /\ t.loop /\ t.master_fd # 0
    THEN RemoveReader(t)
    ELSE t

\* The end of _stop_terminal: close the master fd, clear both fields.
StopFinish(t) ==
    [t EXCEPT !.open_fds = @ \ {t.master_fd},
              !.master_fd = 0,
              !.process = 0,
              !.stop = "idle",
              !.stops_done = @ + 1]

\* The variables of the model that the terminal widget leaves alone.
beside_terminal_vars ==
    <<code, focuses, dim_background, pc, ranges, sorted_ranges, idx,
      current_pos, processed_ranges, accepted, spans, previous,
      highlighter_calls, steps, current_index, displayed, description, app,
      download>>

\* _start_terminal up to its await: return if there is a process, else
\* open a pty and start to create the subprocess.
StartTerminal ==
    /\ terminal.start = "idle"
    /\ terminal.starts_done + 1 <= MaxStarts
    /\ terminal' =
           IF terminal.process # 0
           THEN [terminal EXCEPT !.starts_done = @ + 1]
           ELSE [terminal EXCEPT !.master_fd = terminal.opened + 1,
                                 !.opened = @ + 1,
                                 !.open_fds = @ \cup {terminal.opened + 1},
                                 !.loop = TRUE,
                                 !.start = "spawning"]
    /\ UNCHANGED beside_terminal_vars

\* _start_terminal from its await: the subprocess is assigned, then
\* _register_reader.
SubprocessCreated ==
    /\ terminal.start = "spawning"
    /\ terminal' =
           RegisterReader(
               [terminal EXCEPT !.procs = Append(@, "running"),
                                !.process = Len(terminal.procs) + 1,
                                !.start = "idle",
                                !.starts_done = @ + 1])
    /\ UNCHANGED beside_terminal_vars

\* _stop_terminal up to its await, or to its end when there is no process
\* or terminate() raises ProcessLookupError.
StopTerminal ==
    /\ terminal.stop = "idle"
    /\ terminal.stops_done + 1 <= MaxStops
    /\ LET called == [StopReader(terminal) EXCEPT
                          !.stop_saw_start =
                              \/ terminal.starts_done > 0
                              \/ terminal.start # "idle"]
       IN terminal' =
              IF called.process = 0
              THEN StopFinish(called)
              ELSE IF called.procs[called.process] \in Finished
              THEN StopFinish(called)
              ELSE [called EXCEPT !.procs[called.process] = "terminating",
                                  !.stop = "waiting"]
    /\ UNCHANGED beside_terminal_vars

\* _stop_terminal from wait_for: the process has ended within the timeout.
WaitReturns ==
    /\ terminal.stop = "waiting"
    /\ terminal' =
           StopFinish([terminal EXCEPT !.procs[terminal.process] = "terminated"])
    /\ UNCHANGED beside_terminal_vars

\* _stop_terminal from wait_for: TimeoutError, kill, and wait again.
WaitTimesOut ==
    /\ terminal.stop = "waiting"
    /\ terminal' = [terminal EXCEPT !.procs[terminal.process] = "killed",
                                    !.stop = "killing"]
    /\ UNCHANGED beside_terminal_vars

\* _stop_terminal from the wait that follows kill.
KillWaitReturns ==
    /\ terminal.stop = "killing"
    /\ terminal' = StopFinish(terminal)
    /\ UNCHANGED beside_terminal_vars

\* _on_pty_ready, which the loop calls while a reader is registered: no
\* master fd, nothing to read, data, or end of file.
OnPtyReady ==
    /\ terminal.readers # {}
    /\ \E data \in {"blocking", "data", "eof"} :
           terminal' =
               IF terminal.master_fd = 0 \/ data = "blocking"
               THEN terminal
               ELSE IF data = "data"
               THEN [terminal EXCEPT !.fed = TRUE]
               ELSE LET closed == [terminal EXCEPT !.closed_message = TRUE]
                    IN IF closed.loop /\ closed.master_fd # 0
                           /\ closed.reader_registered
                       THEN RemoveReader(closed)
                       ELSE closed
    /\ UNCHANGED beside_terminal_vars

\* TerminalWidget._can_write
CanWrite(t) == t.master_fd # 0 /\ t.process # 0

\* TerminalWidget.on_key for a key that _serialise_key gives bytes for
OnKey ==
    /\ terminal.writes + 1 <= MaxKeys
    /\ terminal' =
           IF CanWrite(terminal)
           THEN [terminal EXCEPT !.writes = @ + 1]
           ELSE terminal
    /\ UNCHANGED beside_terminal_vars

\* The subprocess ends by itself.
ProcessExits ==
    /\ \E p \in DOMAIN terminal.procs :
           /\ terminal.procs[p] = "running"
           /\ terminal' = [terminal EXCEPT !.procs[p] = "exited"]
    /\ UNCHANGED beside_terminal_vars

\* TerminalWidget.__init__
TerminalInit ==
    /\ code = <<"a">>
    /\ focuses = <<>>
    /\ dim_background = TRUE
    /\ pc = "idle"
    /\ ranges = {}
    /\ sorted_ranges = <<>>
    /\ idx = 1
    /\ current_pos = 0
    /\ processed_ranges = {}
    /\ accepted = <<>>
    /\ spans = <<>>
    /\ previous = <<>>
    /\ highlighter_calls = <<>>
    /\ steps = <<>>
    /\ current_index = 0
    /\ displayed = ContentWidgets
    /\ description = <<>>
    /\ app = None
    /\ download = None
    /\ terminal = [master_fd |-> 0,
                   process |-> 0,
                   loop |-> FALSE,
                   reader_registered |-> FALSE,
                   closed_message |-> FALSE,
                   fed |-> FALSE,
                   readers |-> {},
                   open_fds |-> {},
                   opened |-> 0,
                   procs |-> <<>>,
                   start |-> "idle",
                   stop |-> "idle",
                   starts_done |-> 0,
                   stops_done |-> 0,
                   stop_saw_start |-> FALSE,
                   registrations |-> 0,
                   removals |-> 0,
                   writes |-> 0]

TerminalNext ==
    \/ StartTerminal
    \/ SubprocessCreated
    \/ StopTerminal
    \/ WaitReturns
    \/ WaitTimesOut
    \/ KillWaitReturns
    \/ OnPtyReady
    \/ OnKey
    \/ ProcessExits

TerminalSpec == TerminalInit /\ [][TerminalNext]_vars

(***************************************************************************)
(* Vocabulary of the properties.                                           *)
(***************************************************************************)
Rendered == pc = "done"

SpanIndexes == 1..Len(spans)

HighlightIndexes == {n \in SpanIndexes : spans[n][3] # DimStyle}

DimIndexes == {n \in SpanIndexes : spans[n][3] = DimStyle}

Offsets == 0..(Len(code) - 1)

\* Offset o lies inside the half-open interval of r.
Covers(r, o) == r[1] <= o /\ o < r[2]

\* Interval a contains interval b (the glossary's containment).
Contains(a, b) == a[1] <= b[1] /\ a[2] >= b[2]

SameInterval(a, b) == a[1] = b[1] /\ a[2] = b[2]

\* Both intervals are non-empty and share an offset, and neither contains
\* the other.
PartialOverlap(a, b) ==
    /\ a[1] < b[2] /\ b[1] < a[2]
    /\ ~Contains(a, b) /\ ~Contains(b, a)

AcceptedSet == SeqRange(accepted)

\* A Range focus whose bounds are not 0 <= start < end <= len(buffer).
MalformedRange(f) ==
    /\ f.type = "RANGE"
    /\ ~(0 <= f.start /\ f.start < f.end /\ f.end <= Len(code))

MalformedIndexes == {n \in 1..Len(focuses) : MalformedRange(focuses[n])}

(***************************************************************************)
(* C1.  With dim_background true, the spans of the rendered text leave no  *)
(* gap: every offset of the buffer lies inside at least one span.          *)
(* The code breaks this for a Range focus with a negative start (C7): the  *)
(* sweep moves current_pos to the range's end, and the text styles the     *)
(* range counted from the end of the buffer, or not at all.                *)
(***************************************************************************)
C1_Coverage ==
    (Rendered /\ dim_background) =>
        \A o \in Offsets : \E n \in SpanIndexes : Covers(spans[n], o)

\* Interval a contains interval b and is not the same interval.
StrictlyContains(a, b) == Contains(a, b) /\ ~SameInterval(a, b)

\* Buffer "[i]" with Literal("[i]") and Literal("i"): one accepted span.
C2_BracketExample ==
    (/\ code = CodeBracket
     /\ focuses = <<FocusLiteral(<<"[", "i", "]">>, Yellow, FALSE),
                    FocusLiteral(<<"i">>, Yellow, FALSE)>>)
        => processed_ranges = {<<0, 3>>}

\* "test [i] and i in z[i, j]" with Literal("[i]") and the word-boundary
\* Literal("i"): the bracketed span and the two standalone i.
C2_CompoundExample ==
    (/\ code = CodeCompound
     /\ focuses = <<FocusLiteral(<<"[", "i", "]">>, Yellow, FALSE),
                    FocusLiteral(<<"i">>, Yellow, TRUE)>>)
        => processed_ranges = {<<5, 8>>, <<13, 14>>, <<20, 21>>}

(***************************************************************************)
(* C2.  A candidate whose interval is strictly contained in the interval   *)
(* of another candidate is never accepted, a candidate that no other       *)
(* candidate strictly contains is accepted once the sweep has ended, and   *)
(* the two examples of the tests come out as stated.                       *)
(***************************************************************************)
C2_ContainmentRejection ==
    /\ \A a \in ranges, b \in ranges :
           StrictlyContains(a, b) => <<b[1], b[2]>> \notin processed_ranges
    /\ Rendered =>
           /\ \A b \in ranges :
                  (\A a \in ranges : ~StrictlyContains(a, b))
                      => <<b[1], b[2]>> \in processed_ranges
           /\ C2_BracketExample
           /\ C2_CompoundExample

\* The compound example has been rendered.
C2_Witness ==
    /\ Rendered
    /\ code = CodeCompound
    /\ focuses = <<FocusLiteral(<<"[", "i", "]">>, Yellow, FALSE),
                   FocusLiteral(<<"i">>, Yellow, TRUE)>>
    /\ <<6, 7, Yellow>> \in ranges
    /\ <<5, 8>> \in processed_ranges

(***************************************************************************)
(* C3.  Every step of the sweep rejects its candidate exactly when the     *)
(* candidate's interval contains, or is contained in (equality included),  *)
(* the interval of a span accepted before; so a candidate that only        *)
(* partially overlaps the accepted spans is accepted.                      *)
(***************************************************************************)
C3_RejectIffContainment ==
    [][(pc = "sweep" /\ idx <= Len(sorted_ranges) /\ idx' = idx + 1) =>
          LET c == sorted_ranges[idx]
              related == \E p \in AcceptedSet : Contains(p, c) \/ Contains(c, p)
          IN /\ related => accepted' = accepted
             /\ ~related => accepted' = Append(accepted, c)]_vars

\* A sweep has accepted a candidate that partially overlaps the span
\* accepted before it.
C3_Witness ==
    /\ Rendered
    /\ Len(accepted) = 2
    /\ PartialOverlap(accepted[1], accepted[2])
    /\ sorted_ranges = accepted

\* The positions in the focus list of the focuses with a candidate on r's
\* interval, and the first of them.
Producers(r) ==
    {n \in 1..Len(focuses) :
        \E q \in CollectFocusRanges(code, focuses[n]) : SameInterval(q, r)}

FirstProducer(r) == CHOOSE n \in Producers(r) : \A m \in Producers(r) : n <= m

(***************************************************************************)
(* C4.  Where candidates of several focuses share an interval and differ   *)
(* in style, the accepted one is that of the focus declared first.         *)
(* The code keeps the candidates in a set and sorts by start and length    *)
(* only: which of the tied candidates comes first is left to the set.      *)
(***************************************************************************)
C4_EarlierDeclaredWins ==
    Rendered =>
        \A r \in AcceptedSet : r \in CollectFocusRanges(code, focuses[FirstProducer(r)])

(***************************************************************************)
(* C5.  Two renders of the same buffer, focus list and dim_background      *)
(* yield the same spans, whatever order the candidate set iterates in.     *)
(* Fails with C4: the style of a tied interval follows the set's order.    *)
(***************************************************************************)
C5_Deterministic == (Rendered /\ previous # <<>>) => previous[1] = spans

(***************************************************************************)
(* C6.  Every span of the rendered text satisfies                          *)
(* 0 <= start < end <= len(buffer).                                        *)
(* The code breaks this for a Range focus whose start lies more than       *)
(* len(buffer) below 0: no bound of a Range is checked (C7).               *)
(***************************************************************************)
C6_SpanBounds ==
    \A n \in SpanIndexes :
        0 <= spans[n][1] /\ spans[n][1] < spans[n][2] /\ spans[n][2] <= Len(code)

\* The focus list without its malformed Range focuses.
WellFormedFocuses == SelectSeq(focuses, LAMBDA f : ~MalformedRange(f))

(***************************************************************************)
(* C7.  A malformed Range focus is rejected: every highlight span of the   *)
(* rendered text is a candidate of one of the other focuses of the list    *)
(* (the model has no error outcome, as the code raises none).              *)
(* The code passes the bounds on unchecked, and the text styles them       *)
(* counted from the end of the buffer or cut at its length.                *)
(***************************************************************************)
C7_MalformedRangeRejected ==
    Rendered =>
        \A n \in HighlightIndexes :
            spans[n] \in CollectHighlightRanges(code, WellFormedFocuses)

(***************************************************************************)
(* C8.  The spans of a single Literal focus.                               *)
(***************************************************************************)
\* The focus is Focus.literal(text, style, word_boundary=wb).
IsLiteral(f, text, wb) == f = FocusLiteral(text, f.style, wb)

\* The texts of the Literal focuses of the model.
LiteralTexts == {<<"i">>, <<"i", "i">>, <<"[", "i", "]">>}

OccursAt(text, p) ==
    /\ p + Len(text) <= Len(code)
    /\ \A k \in 1..Len(text) : code[p + k] = text[k]

\* The character at offset p exists and is a word character.
WordAt(p) == 0 <= p /\ p < Len(code) /\ code[p + 1] \in WordChars

\* The offsets a left-to-right scan that restarts at the end of each match
\* picks among the offsets of from, for matches of length n.
Scan(from, n) ==
    CHOOSE S \in SUBSET from :
        \A p \in from : p \in S <=> ~(\E q \in S : q < p /\ p < q + n)

Intervals(rs) == {<<r[1], r[2]>> : r \in rs}

SpansAt(S, n) == {<<p, p + n>> : p \in S}

C8_Examples ==
    /\ (code = CodeWords /\ focuses = <<FocusLiteral(<<"i">>, Yellow, FALSE)>>)
           => Intervals(ranges) = {<<0, 1>>, <<2, 3>>, <<4, 5>>, <<7, 8>>, <<13, 14>>}
    /\ (code = CodeWords /\ focuses = <<FocusLiteral(<<"i">>, Yellow, TRUE)>>)
           => Intervals(ranges) = {<<0, 1>>}

C9_NoDimOverHighlight ==
    (Rendered /\ dim_background) =>
        \A o \in Offsets :
            ~(/\ \E n \in DimIndexes : Covers(spans[n], o)
              /\ \E n \in HighlightIndexes : Covers(spans[n], o))

Collected == pc \in {"sweep", "done"}

\* The focus list is the single focus f.
OnlyFocus == focuses[1]

\* The number of elements of S below x: the 0-based rank of x in S.
Rank(S, x) == Cardinality({y \in S : y < x})

\* The offsets of the "\n" of the buffer.
NewlineOffsets == {p \in Offsets : code[p + 1] = "\n"}

\* The focus with its match_index taken away.
WithoutIndex(f) == [f EXCEPT !.match_index = None]

\* The intervals of all the matches of f, match_index left aside.
AllMatches(f) == Intervals(CollectFocusRanges(code, WithoutIndex(f)))

\* The matches of f that a match_index selects by their 0-based rank from
\* the left.
SelectedMatches(f) ==
    LET all == AllMatches(f)
        starts == {m[1] : m \in all}
        wanted == IF f.match_index.kind = "int" THEN {f.match_index.v}
                  ELSE SeqRange(f.match_index.v)
    IN IF f.match_index.kind = "none" THEN all
       ELSE {m \in all : Rank(starts, m[1]) \in wanted}

(***************************************************************************)
(* C11.  The spans of a Literal or Regex focus with match_index k (or a    *)
(* list K) are exactly its k-th (K-indexed) matches, counted from 0 in     *)
(* left-to-right order; with match_index omitted, all its matches.         *)
(* The collectors of widgets.py never read match_index: every match is a   *)
(* candidate.                                                              *)
(***************************************************************************)
C11_MatchIndexSelects ==
    (Collected /\ Len(focuses) = 1 /\ OnlyFocus.type \in {"LITERAL", "REGEX"}) =>
        Intervals(ranges) = SelectedMatches(OnlyFocus)

(***************************************************************************)
(* C12.  A Line focus with line_number n yields, for 0 <= n < line count   *)
(* (the lines being the pieces between the "\n" of the buffer), exactly    *)
(* one candidate: from the offset after the n-th "\n" (0 for n = 0), which *)
(* is the sum of length + 1 over the lines before, to the offset of the    *)
(* next "\n" or the end of the buffer.  For any other n it yields no       *)
(* candidate, and rendering does not fail.                                 *)
(***************************************************************************)
C12_LineSpan ==
    (pc # "idle" /\ Len(focuses) = 1 /\ OnlyFocus.type = "LINE") =>
        LET n == OnlyFocus.line_number
            count == Cardinality(NewlineOffsets) + 1
            first == IF n = 0 THEN 0
                     ELSE 1 + CHOOSE p \in NewlineOffsets : Rank(NewlineOffsets, p) = n - 1
            last == IF n = count - 1 THEN Len(code)
                    ELSE CHOOSE p \in NewlineOffsets : Rank(NewlineOffsets, p) = n
        IN /\ Collected
           /\ (0 <= n /\ n < count) => ranges = {<<first, last, OnlyFocus.style>>}
           /\ ~(0 <= n /\ n < count) => ranges = {}
           /\ (code = CodeTwoLines /\ n = 0) => Intervals(ranges) = {<<0, 5>>}

\* The second line of "line1\nline2", and a line number past the last line.
C12_Witness ==
    /\ Rendered
    /\ \/ code = CodeTwoLines /\ focuses = <<FocusLine(1, Yellow)>>
          /\ ranges = {<<6, 11, Yellow>>}
       \/ code = CodeTwoLines /\ focuses = <<FocusLine(2, Yellow)>> /\ ranges = {}

\* An inclusive Between focus with literal delimiters and no match_index.
InclusiveLiteralBetween(f) ==
    /\ f.type = "BETWEEN"
    /\ f.inclusive
    /\ f.match_index = None
    /\ \A c \in SeqRange(f.start_pattern) \cup SeqRange(f.end_pattern) : c \notin MetaChars

\* The offsets from pos on where the end delimiter of f occurs; with across
\* false only those that no "\n" separates from pos.
EndDelimiters(f, pos, across) ==
    {q \in pos..Len(code) :
        /\ OccursAt(f.end_pattern, q)
        /\ across \/ \A o \in pos..(q - 1) : code[o + 1] # "\n"}

\* The pairing of the delimiters of f scanning from pos: the first start
\* delimiter that an end delimiter follows, with the nearest of them or,
\* greedy, the last; then on from the end of that span.
RECURSIVE PairedFrom(_, _, _)
PairedFrom(f, pos, across) ==
    LET n == Len(f.start_pattern)
        starts == {p \in pos..Len(code) :
                      /\ OccursAt(f.start_pattern, p)
                      /\ EndDelimiters(f, p + n, across) # {}}
        p == Least(starts)
        ends == EndDelimiters(f, p + n, across)
        e == (IF f.greedy THEN Greatest(ends) ELSE Least(ends)) + Len(f.end_pattern)
    IN IF starts = {} THEN {}
       ELSE {<<p, e>>} \cup PairedFrom(f, e, across)

\* Buffer "<a><b>" with delimiters "<" and ">": non-greedy and greedy.
C13_Example ==
    /\ (/\ code = CodeAngle
        /\ focuses = <<FocusBetween(<<"<">>, <<">">>, Yellow, TRUE, TRUE, None, FALSE)>>)
           => Intervals(ranges) = {<<0, 3>>, <<3, 6>>}
    /\ (/\ code = CodeAngle
        /\ focuses = <<FocusBetween(<<"<">>, <<">">>, Yellow, TRUE, TRUE, None, TRUE)>>)
           => Intervals(ranges) = {<<0, 6>>}

(***************************************************************************)
(* C13, as claimed.  The spans of an inclusive Between focus with literal  *)
(* delimiters pair, scanning left to right without overlap, each start     *)
(* delimiter with the nearest following end delimiter, or, greedy, with    *)
(* the last end delimiter; the example comes out as stated.                *)
(***************************************************************************)
C13_BetweenPairing ==
    (Collected /\ Len(focuses) = 1 /\ InclusiveLiteralBetween(OnlyFocus)) =>
        /\ Intervals(ranges) = PairedFrom(OnlyFocus, 0, TRUE)
        /\ C13_Example

(***************************************************************************)
(* C13, amended.  As claimed when multiline is true (the default).  With   *)
(* multiline false a span does not run over a "\n": the end delimiters a   *)
(* start delimiter is paired with are those that no "\n" separates from    *)
(* it.  Every span carries the focus's style.                              *)
(***************************************************************************)
C13_BetweenPairingAmended ==
    (Collected /\ Len(focuses) = 1 /\ InclusiveLiteralBetween(OnlyFocus)) =>
        /\ Intervals(ranges) = PairedFrom(OnlyFocus, 0, OnlyFocus.multiline)
        /\ \A r \in ranges : r[3] = OnlyFocus.style
        /\ C13_Example

\* The greedy example, and a greedy span over two end delimiters of a
\* generic buffer.
C13_Witness ==
    /\ Rendered
    /\ Len(focuses) = 1
    /\ InclusiveLiteralBetween(OnlyFocus)
    /\ OnlyFocus.greedy
    /\ \/ code = CodeAngle /\ ranges = {<<0, 6, Yellow>>}
       \/ code = <<"a", " ", " ">> /\ ranges = {<<0, 3, Yellow>>}

\* Offset p holds the last character of a line boundary: "\n", or a "\r"
\* that no "\n" follows.
EndsLine(p) ==
    /\ code[p + 1] \in {"\n", "\r"}
    /\ ~(code[p + 1] = "\r" /\ p + 1 < Len(code) /\ code[p + 2] = "\n")

\* The offsets where the lines of the buffer start.
LineStartOffsets ==
    {p \in Offsets : p = 0 \/ EndsLine(p - 1)}

LineCount == Cardinality(LineStartOffsets)

\* The first offset of line i (0-based), and the offset past its boundary.
LineStart(i) == CHOOSE p \in LineStartOffsets : Rank(LineStartOffsets, p) = i

LineEnd(i) == IF i = LineCount - 1 THEN Len(code) ELSE LineStart(i + 1)

\* Line i contains the text.
LineHolds(i, text) ==
    \E p \in LineStart(i)..(LineEnd(i) - Len(text)) : OccursAt(text, p)

(***************************************************************************)
(* C14.  The candidates of a LineContaining focus (match_index omitted)    *)
(* are, for every line i that contains the pattern, the span of the whole  *)
(* lines max(0, i - lines_before) to min(last line, i + lines_after): from *)
(* the first offset of the first of them to the end of the last, boundary  *)
(* included, and nothing else; no candidate starts below 0 or ends past    *)
(* len(buffer).  The lines are those str.splitlines divides the buffer     *)
(* into.  Five lines, the pattern on line 2, one line before and after:    *)
(* the span of lines 1 to 3.                                               *)
(***************************************************************************)
C14_LineWindow ==
    (/\ pc # "idle"
     /\ Len(focuses) = 1
     /\ OnlyFocus.type = "LINE_CONTAINING"
     /\ OnlyFocus.match_index = None) =>
        LET f == OnlyFocus
            window(i) == <<LineStart(Max(0, i - f.lines_before)),
                           LineEnd(Min(LineCount - 1, i + f.lines_after))>>
        IN /\ Collected
           /\ Intervals(ranges) =
                  {window(i) : i \in {j \in 0..(LineCount - 1) : LineHolds(j, f.pattern)}}
           /\ \A r \in ranges : 0 <= r[1] /\ r[2] <= Len(code) /\ r[3] = f.style
           /\ (/\ code = CodeFiveLines
               /\ f = FocusLineContaining(<<"X">>, Yellow, 1, 1, FALSE, None))
                  => Intervals(ranges) = {<<2, 8>>}

\* The example, and a window held at the first line of the buffer.
C14_Witness ==
    /\ Rendered
    /\ \/ /\ code = CodeFiveLines
          /\ focuses = <<FocusLineContaining(<<"X">>, Yellow, 1, 1, FALSE, None)>>
          /\ ranges = {<<2, 8, Yellow>>}
       \/ /\ code = <<"a", "\n", " ">>
          /\ focuses = <<FocusLineContaining(<<"a">>, Yellow, 1, 1, FALSE, None)>>
          /\ ranges = {<<0, 3, Yellow>>}

(***************************************************************************)
(* C15.  A focus list with more than one Syntax focus or more than one     *)
(* Markdown focus is rejected with an error: no call of highlight_code     *)
(* renders it.                                                             *)
(* validate_focuses states the rule but nothing calls it: a list of two    *)
(* Syntax focuses is set on the display and rendered with the first.       *)
(***************************************************************************)
C15_MultipleRejected ==
    ValidateFocuses(focuses) # "None" => pc \notin {"sweep", "done", "syntax"}

\* The focus list holds a Syntax focus.
HasSyntax == \E n \in 1..Len(focuses) : focuses[n].type = "SYNTAX"

(***************************************************************************)
(* C16.  Once highlight_code has been called on a focus list with a Syntax *)
(* focus, the highlighter has been called exactly once, on the buffer or   *)
(* the slice of its lines, and no matcher, sweep or gap fill has run: no   *)
(* candidate, no accepted range and no span of another focus exists.  On a *)
(* list without Syntax focus the highlighter is never called.              *)
(***************************************************************************)
C16_SyntaxBypass ==
    /\ (pc # "idle" /\ HasSyntax) =>
           /\ pc = "syntax"
           /\ Len(highlighter_calls) = 1
           /\ ranges = {} /\ sorted_ranges = <<>>
           /\ processed_ranges = {} /\ accepted = <<>>
           /\ spans = <<>>
    /\ ~HasSyntax => highlighter_calls = <<>>

\* A list of a Literal and a Syntax focus has been rendered by the
\* highlighter alone though the literal occurs in the buffer.
C16_Witness ==
    /\ pc = "syntax"
    /\ focuses = <<FocusLiteral(<<"a">>, Yellow, FALSE), PlainSyntax>>
    /\ code = <<"a">>
    /\ Len(highlighter_calls) = 1
    /\ highlighter_calls[1].code = code

(***************************************************************************)
(* C18.  Rendering never fails because of the pattern of a Regex, Between  *)
(* or LineContainingRegex focus: an invalid pattern fails when the focus   *)
(* is constructed.                                                         *)
(* Focus.between and Focus.line_containing keep the pattern as a str; it   *)
(* is compiled by re.finditer and re.search while rendering.               *)
(***************************************************************************)
C18_NoPatternErrorAtRender ==
    pc = "error" =>
        \A n \in 1..Len(focuses) :
            focuses[n].type \notin {"REGEX", "BETWEEN", "LINE_CONTAINING_REGEX"}

\* The highlight spans of a list of spans, in their order.
Highlights(sp) == SelectSeq(sp, LAMBDA r : r[3] # DimStyle)

\* The candidates among the first n of a sorted list that neither contain
\* nor lie in a candidate kept before them, in their order.
RECURSIVE KeptOf(_, _)
KeptOf(sorted, n) ==
    IF n = 0 THEN <<>>
    ELSE LET before == KeptOf(sorted, n - 1)
             c == sorted[n]
         IN IF \E p \in SeqRange(before) : Contains(p, c) \/ Contains(c, p)
            THEN before
            ELSE Append(before, c)

\* The spans the text holds once the candidates of kept have been applied
\* to it in their order, and nothing else.
RECURSIVE StylizeAll(_)
StylizeAll(kept) ==
    IF Len(kept) = 0 THEN <<>>
    ELSE LET r == kept[Len(kept)]
         IN Stylize(StylizeAll(SubSeq(kept, 1, Len(kept) - 1)), Len(code),
                    r[3], r[1], r[2])

(***************************************************************************)
(* C17.  With dim_background false the text has no dim span, and under     *)
(* either value of dim_background its highlight spans (intervals, styles   *)
(* and order) are those of the sorted candidates alone: the candidates     *)
(* kept by the containment rule, applied in their order.  So a render with *)
(* dim_background false emits the highlight spans that the render of the   *)
(* same sorted candidates emits with dim_background true.                  *)
(***************************************************************************)
C17_DimOnlyAddsDim ==
    /\ ~dim_background => DimIndexes = {}
    /\ Highlights(spans) = StylizeAll(KeptOf(sorted_ranges, idx - 1))

\* A finished render without dim that leaves part of the buffer without
\* span, with a highlight span on the rest.
C17_Witness ==
    /\ Rendered
    /\ ~dim_background
    /\ Len(spans) > 0
    /\ \E o \in Offsets : \A n \in SpanIndexes : ~Covers(spans[n], o)

\* The offset of the first "\n" at or after offset p, len(buffer) without.
NextNewline(p) ==
    IF \E q \in NewlineOffsets : q >= p
    THEN Least({q \in NewlineOffsets : q >= p})
    ELSE Len(code)

\* The offsets where the lines between the "\n" of the buffer start.
NewlineLineStarts == {0} \cup {q + 1 : q \in NewlineOffsets}

\* The offset of the content of the line starting at s after its leading
\* whitespace (the end of the line if it holds nothing else).
ContentStart(s) ==
    Least({w \in s..NextNewline(s) :
              w = NextNewline(s) \/ code[w + 1] \notin Whitespace})

(***************************************************************************)
(* C19.  The candidates of a StartsWith focus, the lines being the pieces  *)
(* between the "\n" of the buffer.  Not anchored: one candidate per        *)
(* occurrence of the text in the buffer, from the occurrence to the next   *)
(* "\n" or len(buffer).  Anchored: one candidate per line whose content    *)
(* after leading whitespace starts with the text, from there to the end of *)
(* the line, "\n" excluded.  Nothing else is a candidate.                  *)
(* The anchored branch walks the lines of str.splitlines, which also end   *)
(* at a "\r", and takes only a "\n" off their end.                         *)
(***************************************************************************)
C19_StartsWithSpans ==
    (pc # "idle" /\ Len(focuses) = 1 /\ OnlyFocus.type = "STARTSWITH") =>
        LET text == OnlyFocus.text
            anchored == {<<ContentStart(s), NextNewline(s)>> : s \in
                            {t \in NewlineLineStarts :
                                /\ OccursAt(text, ContentStart(t))
                                /\ ContentStart(t) + Len(text) <= NextNewline(t)}}
            anywhere == {<<p, NextNewline(p)>> : p \in
                            {q \in 0..Len(code) : OccursAt(text, q)}}
        IN /\ Collected
           /\ Intervals(ranges) =
                  IF OnlyFocus.from_start_of_line THEN anchored ELSE anywhere

(***************************************************************************)
(* C20.  In a chapter with n >= 1 steps the step index is always in        *)
(* 0..n-1, the steps never change, and a step of next_step takes index i   *)
(* to i + 1, or to 0 from n - 1; a step of previous_step takes it to       *)
(* i - 1, or to n - 1 from 0; a step of reset_step takes it to 0.          *)
(***************************************************************************)
C20_StepIndex ==
    /\ [](Len(steps) >= 1 => current_index \in 0..(Len(steps) - 1))
    /\ [][Len(steps) >= 1 =>
            /\ steps' = steps
            /\ NextStep =>
                 current_index' = IF current_index = Len(steps) - 1 THEN 0
                                  ELSE current_index + 1
            /\ PreviousStep =>
                 current_index' = IF current_index = 0 THEN Len(steps) - 1
                                  ELSE current_index - 1
            /\ ResetStep => current_index' = 0]_vars

\* The chapter shows the last of three steps, a markdown step: reached by
\* one previous_step from the first step, or by two next_step.
C20_Witness ==
    /\ Len(steps) = 3
    /\ current_index = 2
    /\ steps[3] = MarkdownStep
    /\ displayed = {"markdown"}
    /\ description = <<3, 3, "markdown">>

\* The highlight span at position m of a span list comes before the one at
\* position n in the order of _sort_ranges: earlier start, or the same
\* start and not shorter.
InSortOrder(h, m, n) ==
    \/ h[m][1] < h[n][1]
    \/ h[m][1] = h[n][1] /\ h[m][2] - h[m][1] >= h[n][2] - h[n][1]

(***************************************************************************)
(* C24.  The highlight spans of the text are the accepted ranges, in       *)
(* acceptance order, and that order is ascending start and, for equal      *)
(* starts, descending length; so of two highlight spans that partially     *)
(* overlap the one with the later start comes later in the text's span     *)
(* list, where rich paints it on top.                                      *)
(* The code breaks this for a Range focus with a negative bound (C7): it   *)
(* is sorted by the bound it was given and styled counted from the end of  *)
(* the buffer.                                                             *)
(***************************************************************************)
C24_PaintOrder ==
    LET h == Highlights(spans)
    IN /\ h = accepted
       /\ \A m \in 1..Len(h), n \in 1..Len(h) :
              m < n =>
                  /\ InSortOrder(h, m, n)
                  /\ PartialOverlap(h[m], h[n]) => h[m][1] < h[n][1]

\* The candidate intervals that no other candidate interval strictly
\* contains.
MaximalIntervals ==
    {i \in Intervals(ranges) :
        \A j \in Intervals(ranges) : ~StrictlyContains(j, i)}

(***************************************************************************)
(* C25.  When every candidate has start < end, the intervals the finished  *)
(* sweep has accepted are exactly the candidate intervals that no other    *)
(* candidate interval strictly contains; each is accepted once, whatever   *)
(* the number of candidates (of different styles) on it, and no accepted   *)
(* range contains another.                                                 *)
(***************************************************************************)
C25_AcceptedAreMaximal ==
    (Rendered /\ \A r \in ranges : r[1] < r[2]) =>
        /\ Intervals(AcceptedSet) = MaximalIntervals
        /\ processed_ranges = MaximalIntervals
        /\ Len(accepted) = Cardinality(MaximalIntervals)
        /\ \A m \in 1..Len(accepted), n \in 1..Len(accepted) :
               m # n => ~Contains(accepted[m], accepted[n])

\* A finished sweep over an interval two candidates of different styles
\* share, and one over a candidate that another strictly contains.
C25_Witness ==
    /\ Rendered
    /\ \A r \in ranges : r[1] < r[2]
    /\ \/ /\ \E a \in ranges, b \in ranges : a # b /\ SameInterval(a, b)
          /\ Len(accepted) = 1
       \/ /\ \E a \in ranges, b \in ranges : StrictlyContains(a, b)
          /\ Len(accepted) = 2
          /\ Cardinality(ranges) = 3

\* Interval a comes before interval b from left to right: the order in
\* which re.finditer finds its matches.
Before(a, b) == a[1] < b[1] \/ (a[1] = b[1] /\ a[2] < b[2])

\* The 0-based lines of the buffer that hold the pattern of f.
HoldingLines(f) == {j \in 0..(LineCount - 1) : LineHolds(j, f.pattern)}

\* The window of a LineContaining focus around line i.
Window(f, i) ==
    <<LineStart(Max(0, i - f.lines_before)),
      LineEnd(Min(LineCount - 1, i + f.lines_after))>>

(***************************************************************************)
(* C26.  A Between, LineContaining or LineContainingRegex focus whose      *)
(* pattern compiles, with match_index k: its candidates are the k-th of    *)
(* the matches it has without match_index, counted from 0 in the order of  *)
(* discovery (left to right for Between, the k-th line from the top that   *)
(* holds the pattern for the line focuses), and none, without error, when  *)
(* k is negative or not below the number of matches.  With match_index     *)
(* None every match is a candidate.                                        *)
(***************************************************************************)
C26_MatchIndexKeepsOne ==
    (/\ pc # "idle"
     /\ Len(focuses) = 1
     /\ OnlyFocus.type \in {"BETWEEN", "LINE_CONTAINING", "LINE_CONTAINING_REGEX"}
     /\ ~CollectRaises(code, OnlyFocus)) =>
        LET f == OnlyFocus
            k == f.match_index
            all == AllMatches(f)
            between == {m \in all : Cardinality({b \in all : Before(b, m)}) = k.v}
            lines == {Window(f, i) : i \in {j \in HoldingLines(f) :
                                               Rank(HoldingLines(f), j) = k.v}}
        IN /\ Collected
           /\ \A r \in ranges : r[3] = f.style
           /\ Intervals(ranges) =
                  IF k = None THEN all
                  ELSE IF f.type = "BETWEEN" THEN between
                  ELSE lines
           /\ (k # None /\ f.type = "BETWEEN"
                  /\ (k.v < 0 \/ k.v >= Cardinality(all))) => ranges = {}
           /\ (k # None /\ f.type # "BETWEEN"
                  /\ (k.v < 0 \/ k.v >= Cardinality(HoldingLines(f)))) => ranges = {}

\* The second of the two matches of "<a><b>", the third of the four lines
\* of the five-line buffer that hold "a", and an index below 0.
C26_Witness ==
    /\ Rendered
    /\ \/ /\ code = CodeAngle
          /\ focuses = <<FocusBetween(<<"<">>, <<">">>, Yellow, TRUE, TRUE, Index(1), FALSE)>>
          /\ ranges = {<<3, 6, Yellow>>}
       \/ /\ code = CodeFiveLines
          /\ focuses = <<FocusLineContaining(<<"a">>, Yellow, 0, 1, FALSE, Index(2))>>
          /\ ranges = {<<6, 9, Yellow>>}
       \/ /\ code = CodeFiveLines
          /\ focuses = <<FocusLineContaining(<<"a">>, Yellow, 0, 1, TRUE, Index(-1))>>
          /\ ranges = {}

(***************************************************************************)
(* C27.  In a chapter constructed without steps the current step is the    *)
(* empty Step, the step index is 0 and no navigation action has raised.    *)
(* next_step and previous_step take the index modulo len(self.steps),      *)
(* which is 0: ZeroDivisionError.                                          *)
(***************************************************************************)
C27_EmptyChapterNavigates ==
    steps = <<>> =>
        /\ CurrentStep(current_index) = EmptyStep
        /\ current_index = 0
        /\ pc # "error"

(***************************************************************************)
(* C22.  A step of toggle_dim flips dim_background when the current step   *)
(* is shown by the code display, and leaves dim_background, the step index *)
(* and the shown widgets as they are when the current step is a markdown   *)
(* or an image step.                                                       *)
(* In widgets.py a markdown step is a Step with a Markdown focus, and      *)
(* Chapter.toggle_dim tests isinstance(self.current_step, Step) only.      *)
(***************************************************************************)
C22_ToggleDimOnlyOnCode ==
    [][ToggleDimStep =>
          IF ShowsCode(CurrentStep(current_index))
          THEN dim_background' = ~dim_background
          ELSE /\ dim_background' = dim_background
               /\ current_index' = current_index
               /\ description # <<>> => displayed' = displayed]_vars

\* The widget of a chapter of the app that presents a step of this kind.
WidgetOf(step) ==
    IF step.kind = "MarkdownStep" THEN "markdown_container"
    ELSE IF step.kind = "ImageStep" THEN "image_container"
    ELSE "code_display"

\* C21: after every update_display of a chapter, whatever navigation came
\* before, exactly one of the code display, the markdown container and the
\* image container is visible, and it is the one of the current step's kind.
C21_ExactlyOneShown ==
    \A c \in 1..ChapterCount :
        LET ch == app.chapters[c]
        IN ch.description # <<>> =>
               ch.visible = {WidgetOf(ChapterCurrentStep(ch))}

\* A chapter mixing the three kinds of step shows its markdown step, second
\* of three, after navigation has passed over the code step.
C21_Witness ==
    /\ app # None
    /\ LET ch == app.chapters[1]
       IN /\ {ch.steps[i].kind : i \in DOMAIN ch.steps}
                 = {"Step", "MarkdownStep", "ImageStep"}
          /\ ch.steps[2].kind = "MarkdownStep"
          /\ ch.current_index = 1
          /\ ch.description # <<>>
          /\ ch.description[1] = 2
          /\ ch.visible = {"markdown_container"}
          /\ ch.focuses # <<>>

\* The chapters of the app other than the current one.
OtherChapters == (1..ChapterCount) \ {Current}

DownloadIsOver == download.pc \in {"returned", "raised"}

\* C28: on every exit of download_image the temporary file of the download
\* is deleted and closed, and a URL that fails validation is rejected with
\* no temporary file created and no request sent.
C28_TempFileDeleted ==
    /\ DownloadIsOver => download.files = {} /\ ~download.tmp_open
    /\ ~UrlIsValid(download.url) =>
           /\ download.created = 0
           /\ download.requests = 0
           /\ download.pc \in {"validate_url", "raised"}
           /\ download.pc = "raised" => download.error = "ValueError"

\* An image that was downloaded, opened and loaded is refused by
\* _validate_image, after its temporary file was created and written.
C28_Witness ==
    /\ download # None
    /\ download.pc = "raised"
    /\ download.error = "ImageValidationError"
    /\ download.created = 1
    /\ download.written > 0
    /\ download.tmp_path = TmpName
    /\ download.img # None
    /\ download.files = {}

\* The reader is registered with the loop exactly while the flag says so,
\* for the master fd, which is open; every registration but a standing one
\* has been removed once.
ReaderFollowsFd ==
    /\ terminal.readers \subseteq terminal.open_fds
    /\ terminal.reader_registered =>
           /\ terminal.master_fd # 0
           /\ terminal.readers = {terminal.master_fd}
    /\ ~terminal.reader_registered => terminal.readers = {}
    /\ terminal.registrations
           = terminal.removals + (IF terminal.reader_registered THEN 1 ELSE 0)

\* A step that removes the reader removes one that is registered; a step
\* that writes a key has the master fd, open, and the process; a step that
\* completes _stop_terminal leaves no master fd, no process and no reader.
TerminalStepIsSound ==
    /\ terminal'.removals # terminal.removals =>
           /\ terminal'.removals = terminal.removals + 1
           /\ terminal.master_fd \in terminal.readers
    /\ terminal'.writes # terminal.writes =>
           /\ terminal.master_fd # 0
           /\ terminal.master_fd \in terminal.open_fds
           /\ terminal.process # 0
    /\ terminal'.stops_done # terminal.stops_done =>
           /\ terminal'.master_fd = 0
           /\ terminal'.process = 0
           /\ ~terminal'.reader_registered
           /\ terminal'.readers = {}

\* C29: the pty reader is registered only while the master fd is open, it
\* is removed at most once per registration, key input is written only
\* while the master fd and the process are present, and when _stop_terminal
\* completes the master fd and the process are None and the reader is
\* unregistered.
C29_ReaderAndFd ==
    /\ []ReaderFollowsFd
    /\ [][TerminalStepIsSound]_vars

\* A key was written, the end of file removed the reader, and
\* _stop_terminal has completed after that without removing it again.
C29_Witness ==
    /\ terminal # None
    /\ terminal.writes > 0
    /\ terminal.closed_message
    /\ terminal.registrations = 1
    /\ terminal.removals = 1
    /\ terminal.stops_done = 1
    /\ terminal.stop = "idle"
    /\ terminal.open_fds = {}

\* One call of _start_terminal and one of _stop_terminal, which began
\* after the start did, have both completed.
BothCompleted ==
    /\ terminal.starts_done = 1
    /\ terminal.stops_done = 1
    /\ terminal.start = "idle"
    /\ terminal.stop = "idle"
    /\ terminal.stop_saw_start

\* C30: however _start_terminal and _stop_terminal interleave at their
\* await points, once both have completed no subprocess that was spawned
\* is left running and no master fd is left open; and a _start_terminal
\* called while a process exists spawns nothing.
C30_NothingLeftBehind ==
    /\ [](BothCompleted =>
              /\ \A p \in DOMAIN terminal.procs : terminal.procs[p] # "running"
              /\ terminal.open_fds = {})
    /\ [][StartTerminal /\ terminal.process # 0 =>
              /\ terminal'.procs = terminal.procs
              /\ terminal'.opened = terminal.opened
              /\ terminal'.start = "idle"]_vars

====
